---- MODULE Spec2Model ----
(***************************************************************************)
(* ChronoCrypt KMS: credential lifecycle and audit correlation.            *)
(*                                                                         *)
(* The specifications share one set of variables:                          *)
(*   Spec         the credential store (requesters, API keys) with the     *)
(*                management routes and validateApiKey as a task that      *)
(*                yields at its two awaits;                                *)
(*   SpecScript   the setup script, a process of two database writes,      *)
(*                beside the management routes and validateApiKey;         *)
(*   SpecAdmin    admin accounts, the in-memory session map and the admin  *)
(*                middleware;                                              *)
(*   SpecSetup    concurrent calls of the initial admin setup route;       *)
(*   SpecGateway  the gateway in front of the key holder, the audit log    *)
(*                and the request history;                                 *)
(*   SpecAudit    SpecGateway with the access-request listing;             *)
(*   SpecGate     Spec with validation run by the API-key middleware;      *)
(*   SpecStore    the operations of the admin session map;                 *)
(*   SpecTwin     one session kept by the admin store and by the cookie    *)
(*                store side by side;                                      *)
(*   SpecSubmit   SpecGateway with time ranges that end before they start; *)
(*   SpecTrail    SpecGateway with retrievals of the whole audit log;      *)
(*   SpecStats    the gateway appending while getStatistics reads;         *)
(*   SpecLogs     the gateway appending and getAuditLogs reading;          *)
(*   SpecPolicy   the policy operations of the service;                    *)
(*   SpecCookie   the cookie sessions of index.ts;                         *)
(*   SpecAppend   PrismaAuditLog.append with entries of any content.       *)
(*                                                                         *)
(* Strings are sequences of one-character strings, so that splitting and   *)
(* concatenation are computed.  An optional value is a sequence of length  *)
(* zero (null / undefined) or one.                                         *)
(***************************************************************************)
EXTENDS Integers, Sequences, FiniteSets, TLC

VARIABLES
  now,          \* the wall clock (Date.now() / new Date())
  requesters,   \* table requesters: row id -> [enabled]
  nextReq,      \* number of requester rows created so far
  apiKeys,      \* table api_keys: row id -> row
  nextKey,      \* number of api_keys rows created so far
  issued,       \* row id -> the plaintext secret handed out at creation
  val,          \* the validateApiKey task
  touch,        \* the fire-and-forget lastUsedAt update in flight, if any
  response,     \* the last response sent by a credential route
  advances,     \* number of times the session clock was advanced
  admins,       \* table admins: row id -> [username, passwordHash, enabled]
  nextAdmin,    \* number of admins rows created so far
  setup,        \* the two POST /api/admin/setup tasks
  setupCreated, \* number of admins rows created by the setup route
  sessions,     \* the in-memory session map of auth/admin.ts
  nextSession,  \* number of session ids generated so far
  everCreated,  \* session id -> creation instant, for every session ever created
  removed,      \* session ids deleted from the map (logout, expiry, sweep, eviction)
  revoked,      \* session ids the middleware evicted because of the admin account
  mw,           \* the admin middleware task
  check,        \* the last answer of GET /api/admin/session
  auditLog,     \* the audit log: the rows in the order they were appended
  history,      \* table access_requests: the rows saved
  gw,           \* the authorizeAccess tasks
  listing,      \* the last answer of GET /api/access-requests
  gate,         \* the API-key middleware task
  cookies,      \* the in-memory session map of index.ts (cookie sessions)
  twin,         \* the last answers of the two session stores to one validation
  retrieved,    \* the last answer of PrismaAuditLog.getAll, tie order included
  stats,        \* the getStatistics task
  logs,         \* the last answer of getAuditLogs, with its options
  policies,     \* table policies: policy id -> [enabled, priority]
  policyReply,  \* how the last policy operation of the service ended
  cookieReply,  \* the last answer of requireAuth of index.ts
  script,       \* the process of scripts/setup-initial-requester.ts
  login         \* the POST /api/admin/login task

keyVars == <<now, requesters, nextReq, apiKeys, nextKey, issued, val, touch, response>>

adminVars ==
  <<advances, admins, nextAdmin, setup, setupCreated, sessions, nextSession,
    everCreated, removed, revoked, mw, check>>

auditVars == <<auditLog, history, gw, listing>>

extVars == <<gate, cookies, twin, retrieved, stats>>

svcVars == <<logs, policies, policyReply, cookieReply, script, login>>

vars == <<keyVars, adminVars, auditVars, extVars, svcVars>>

\* ------------------------------------------------------------------------
\* Bounds of the model
\* ------------------------------------------------------------------------
\* the last instant of the clock
MaxNow == 1
\* rows ever created in the requesters and api_keys tables together
MaxRows == 2
\* advances of the clock in the session specification
MaxAdvances == 2
\* sessions ever created
MaxSessions == 1
\* authorization calls submitted
MaxCalls == 2
\* the latest clock value of an audit entry
MaxClock == 2
\* sessions created in the session-store specifications
MaxStore == 2

\* ------------------------------------------------------------------------
\* Values
\* ------------------------------------------------------------------------
Null == <<>>

Some(x) == <<x>>

IsNull(o) == Len(o) = 0

Get(o) == o[1]

\* the renderings of the random bytes of a key id and of a secret; the n-th
\* key generated draws the n-th of each, so that no two keys share either
HexDigits == <<"1", "2", "3", "4", "5", "6", "7", "8", "9">>

SecretDigits == <<"p", "q", "r", "s", "t", "u", "v", "w", "x">>

\* ------------------------------------------------------------------------
\* Strings
\* ------------------------------------------------------------------------
RECURSIVE SplitFrom(_, _, _)
SplitFrom(s, i, cur) ==
  IF i > Len(s) THEN <<cur>>
  ELSE IF s[i] = "." THEN <<cur>> \o SplitFrom(s, i + 1, <<>>)
  ELSE SplitFrom(s, i + 1, Append(cur, s[i]))

\* String.prototype.split('.')
SplitDot(s) == SplitFrom(s, 1, <<>>)

\* s has sub as a contiguous substring
Contains(s, sub) ==
  \E i \in 1..(Len(s) + 1) :
    /\ i + Len(sub) - 1 <= Len(s)
    /\ SubSeq(s, i, i + Len(sub) - 1) = sub

\* ------------------------------------------------------------------------
\* auth/api-keys.ts
\* ------------------------------------------------------------------------
\* the pair made from the random bytes numbered kb and sb
generateApiKeyPair(kb, sb) ==
  [keyId |-> <<"c", "k", "_", HexDigits[kb]>>,
   keySecret |-> <<"s", "k", "_", SecretDigits[sb]>>]

\* the digest of a bcrypt hash, an injective scrambling of the secret
BcryptDigest(secret) == [i \in 1..Len(secret) |-> secret[Len(secret) + 1 - i]]

hashApiKeySecretPlain(secret) == secret

\* bcrypt hash: "$" followed by the digest of the secret
hashApiKeySecret(secret) == <<"$">> \o BcryptDigest(secret)

\* bcrypt compare: recompute and compare
verifyApiKeySecret(secret, hashedSecret) == hashedSecret = hashApiKeySecret(secret)

FullApiKey(pair) == pair.keyId \o <<".">> \o pair.keySecret

\* the credential strings presented to validateApiKey: the first two keys
\* with the right and with another secret, one part only, three parts
CredStrings ==
  {FullApiKey(generateApiKeyPair(1, 1)),
   FullApiKey(generateApiKeyPair(1, 2)),
   FullApiKey(generateApiKeyPair(2, 2)),
   generateApiKeyPair(1, 1).keyId,
   FullApiKey(generateApiKeyPair(1, 1)) \o <<".">> \o generateApiKeyPair(1, 1).keySecret}

ExpiryChoices == {Null, Some(0)}

IdleVal ==
  [pc |-> "idle", input |-> <<>>, keyId |-> <<>>, keySecret |-> <<>>,
   snap |-> Null, checkedAt |-> 0, result |-> Null]

KeyRowsWithKeyId(kid) == {id \in DOMAIN apiKeys : apiKeys[id].keyId = kid}

\* prisma.apiKey.findUnique({ where: { keyId }, include: { requester: true } })
FindUniqueApiKey(kid) ==
  IF KeyRowsWithKeyId(kid) = {} THEN Null
  ELSE LET id == CHOOSE i \in KeyRowsWithKeyId(kid) : TRUE
       IN Some([id |-> id,
                keyId |-> apiKeys[id].keyId,
                keySecret |-> apiKeys[id].keySecret,
                enabled |-> apiKeys[id].enabled,
                expiresAt |-> apiKeys[id].expiresAt,
                requesterId |-> apiKeys[id].requesterId,
                requester |-> requesters[apiKeys[id].requesterId]])

\* lines 53-64: split, reject anything but two parts, then issue the lookup
validateApiKeyStart(s) ==
  LET parts == SplitDot(s)
  IN IF Len(parts) # 2
     THEN [IdleVal EXCEPT !.pc = "done", !.input = s]
     ELSE [IdleVal EXCEPT !.pc = "lookup", !.input = s,
                          !.keyId = parts[1], !.keySecret = parts[2]]

ValidateBegin(s) ==
  /\ val.pc \in {"idle", "done"}
  /\ IsNull(touch)
  /\ val' = validateApiKeyStart(s)
  /\ UNCHANGED <<now, requesters, nextReq, apiKeys, nextKey, issued, touch, response>>
  /\ UNCHANGED <<adminVars, auditVars, extVars, svcVars>>

\* lines 71-83 on the row as it was read, at instant t
RowChecksPassNoRequester(row, t) ==
  /\ row.enabled
  /\ ~(~IsNull(row.expiresAt) /\ Get(row.expiresAt) < t)

RowChecksPass(row, t) ==
  /\ row.enabled
  /\ ~(~IsNull(row.expiresAt) /\ Get(row.expiresAt) < t)
  /\ row.requester.enabled

\* lines 61-86: the lookup is answered, the task resumes, checks the row it
\* was given and starts the comparison of the secret
ValidateLookup ==
  /\ val.pc = "lookup"
  /\ LET snap == FindUniqueApiKey(val.keyId)
     IN IF IsNull(snap) \/ ~RowChecksPass(Get(snap), now)
        THEN val' = [val EXCEPT !.pc = "done", !.snap = snap, !.checkedAt = now]
        ELSE val' = [val EXCEPT !.pc = "verify", !.snap = snap, !.checkedAt = now]
  /\ UNCHANGED <<now, requesters, nextReq, apiKeys, nextKey, issued, touch, response>>
  /\ UNCHANGED <<adminVars, auditVars, extVars, svcVars>>

\* the same with the lastUsedAt update issued before the outcome of the
\* comparison is looked at
ValidateVerifyTouchFirst ==
  /\ val.pc = "verify"
  /\ LET row == Get(val.snap)
     IN /\ touch' = Some([id |-> row.id, at |-> now])
        /\ IF verifyApiKeySecret(val.keySecret, row.keySecret)
           THEN val' = [val EXCEPT !.pc = "done",
                          !.result = Some([keyId |-> row.keyId,
                                           requesterId |-> row.requesterId])]
           ELSE val' = [val EXCEPT !.pc = "done"]
  /\ UNCHANGED <<now, requesters, nextReq, apiKeys, nextKey, issued, response>>
  /\ UNCHANGED <<adminVars, auditVars, extVars, svcVars>>

\* lines 86-101: the comparison resolves; on success the lastUsedAt update
\* is issued without being awaited and the identity is returned
ValidateVerify ==
  /\ val.pc = "verify"
  /\ LET row == Get(val.snap)
     IN IF verifyApiKeySecret(val.keySecret, row.keySecret)
        THEN /\ val' = [val EXCEPT !.pc = "done",
                          !.result = Some([keyId |-> row.keyId,
                                           requesterId |-> row.requesterId])]
             /\ touch' = Some([id |-> row.id, at |-> now])
        ELSE /\ val' = [val EXCEPT !.pc = "done"]
             /\ UNCHANGED touch
  /\ UNCHANGED <<now, requesters, nextReq, apiKeys, nextKey, issued, response>>
  /\ UNCHANGED <<adminVars, auditVars, extVars, svcVars>>

\* lines 92-95: the detached update reaches the database
TouchApply ==
  /\ ~IsNull(touch)
  /\ touch' = Null
  /\ IF Get(touch).id \in DOMAIN apiKeys
     THEN apiKeys' = [apiKeys EXCEPT ![Get(touch).id].lastUsedAt = Some(Get(touch).at)]
     ELSE UNCHANGED apiKeys
  /\ UNCHANGED <<now, requesters, nextReq, nextKey, issued, val, response>>
  /\ UNCHANGED <<adminVars, auditVars, extVars, svcVars>>

\* line 95: the detached update fails and the rejection is swallowed
TouchFail ==
  /\ ~IsNull(touch)
  /\ touch' = Null
  /\ UNCHANGED <<now, requesters, nextReq, apiKeys, nextKey, issued, val, response>>
  /\ UNCHANGED <<adminVars, auditVars, extVars, svcVars>>

\* ------------------------------------------------------------------------
\* auth/api-keys.ts: createApiKeyMiddleware
\* ------------------------------------------------------------------------
ApiKeyScheme == <<"A", "p", "i", "K", "e", "y", " ">>

\* String.prototype.startsWith
StartsWith(s, prefix) ==
  Len(s) >= Len(prefix) /\ SubSeq(s, 1, Len(prefix)) = prefix

\* String.prototype.substring(from)
Substring(s, from) == SubSeq(s, from + 1, Len(s))

\* the Authorization headers sent: none, another scheme, the ApiKey scheme
\* with each credential string
AuthHeaders ==
  {Null, Some(<<"B", "e", "a", "r", "e", "r", " ", "x">>)}
    \cup {Some(ApiKeyScheme \o s) : s \in CredStrings}

\* what the middleware returns; status 0: set.status was not assigned
ReplyKeyRequired ==
  [status |-> 401, error |-> "Unauthorized", message |-> "API key required",
   format |-> Some("Authorization: ApiKey <keyId>.<keySecret>"),
   validated |-> Null]

ReplyInvalidKey ==
  [status |-> 401, error |-> "Unauthorized",
   message |-> "Invalid or expired API key", format |-> Null,
   validated |-> Null]

ReplyValidated(v) ==
  [status |-> 0, error |-> "", message |-> "", format |-> Null,
   validated |-> Some(v)]

NoReply ==
  [status |-> 0, error |-> "", message |-> "", format |-> Null,
   validated |-> Null]

IdleGate == [pc |-> "idle", header |-> Null, reply |-> NoReply]

\* line 110-111: no header, or a header of another scheme
HeaderRejected(h) == IsNull(h) \/ ~StartsWith(Get(h), ApiKeyScheme)

\* lines 109-122: the header is read; without an ApiKey header the request
\* is answered at once, otherwise validateApiKey is called and awaited
RequireApiKey(h) ==
  /\ gate.pc # "await"
  /\ val.pc \in {"idle", "done"}
  /\ IsNull(touch)
  /\ IF HeaderRejected(h)
     THEN /\ gate' = [pc |-> "done", header |-> h, reply |-> ReplyKeyRequired]
          /\ val' = val
     ELSE /\ gate' = [pc |-> "await", header |-> h, reply |-> NoReply]
          /\ val' = validateApiKeyStart(Substring(Get(h), 7))
  /\ UNCHANGED <<now, requesters, nextReq, apiKeys, nextKey, issued, touch, response>>
  /\ UNCHANGED <<adminVars, auditVars, cookies, twin, retrieved, stats, svcVars>>

\* lines 124-133 with a message that tells an unknown key id apart
RequireApiKeyReturnRevealing ==
  /\ gate.pc = "await"
  /\ val.pc = "done"
  /\ gate' = [gate EXCEPT !.pc = "done",
                          !.reply = IF ~IsNull(val.result)
                                    THEN ReplyValidated(Get(val.result))
                                    ELSE IF IsNull(val.snap)
                                         THEN [ReplyInvalidKey EXCEPT
                                                 !.message = "Unknown API key"]
                                         ELSE ReplyInvalidKey]
  /\ UNCHANGED <<keyVars, adminVars, auditVars, cookies, twin, retrieved, stats, svcVars>>

\* lines 124-133: validateApiKey has resolved
RequireApiKeyReturn ==
  /\ gate.pc = "await"
  /\ val.pc = "done"
  /\ gate' = [gate EXCEPT !.pc = "done",
                          !.reply = IF IsNull(val.result) THEN ReplyInvalidKey
                                    ELSE ReplyValidated(Get(val.result))]
  /\ UNCHANGED <<keyVars, adminVars, auditVars, cookies, twin, retrieved, stats, svcVars>>

\* a route behind guard({ beforeHandle }): a value returned by the hook is
\* sent as the answer and the handler is not called (this is how the two 401
\* bodies above reach the client); the handler runs when the hook returns
\* nothing.  A status the hook did not assign is 200.
GuardAnswer(returned) ==
  IF IsNull(returned)
  THEN [handlerRan |-> TRUE, status |-> 200, body |-> Null]
  ELSE [handlerRan |-> FALSE,
        status |-> IF Get(returned).status = 0 THEN 200
                   ELSE Get(returned).status,
        body |-> returned]

\* requireApiKey returns a value on each of its three paths
ApiKeyRouteAnswer == GuardAnswer(Some(gate.reply))

\* ------------------------------------------------------------------------
\* Requester and API-key management routes
\* ------------------------------------------------------------------------
RemoveRows(table, ids) == [i \in (DOMAIN table) \ ids |-> table[i]]

InternalError(op) == [op |-> "error", status |-> 500, exposed |-> {}]

\* POST /api/requesters
CreateRequester ==
  /\ nextReq + nextKey < MaxRows
  /\ nextReq' = nextReq + 1
  /\ requesters' = requesters @@ ((nextReq + 1) :> [enabled |-> TRUE])
  /\ response' = [op |-> "write", status |-> 201, exposed |-> {}]
  /\ UNCHANGED <<now, apiKeys, nextKey, issued, val, touch>>
  /\ UNCHANGED <<adminVars, auditVars, extVars, svcVars>>

\* PUT /api/requesters/:id with the enabled field
UpdateRequester(id, en) ==
  /\ IF id \in DOMAIN requesters
     THEN /\ requesters' = [requesters EXCEPT ![id].enabled = en]
          /\ response' = [op |-> "write", status |-> 200, exposed |-> {}]
     ELSE /\ UNCHANGED requesters
          /\ response' = InternalError("updateRequester")
  /\ UNCHANGED <<now, nextReq, apiKeys, nextKey, issued, val, touch>>
  /\ UNCHANGED <<adminVars, auditVars, extVars, svcVars>>

\* DELETE /api/requesters/:id, with the cascade of api_keys_requesterId_fkey
DeleteRequester(id) ==
  /\ IF id \in DOMAIN requesters
     THEN /\ requesters' = RemoveRows(requesters, {id})
          /\ apiKeys' = RemoveRows(apiKeys,
                          {k \in DOMAIN apiKeys : apiKeys[k].requesterId = id})
          /\ response' = [op |-> "write", status |-> 200, exposed |-> {}]
     ELSE /\ UNCHANGED <<requesters, apiKeys>>
          /\ response' = InternalError("deleteRequester")
  /\ UNCHANGED <<now, nextReq, nextKey, issued, val, touch>>
  /\ UNCHANGED <<adminVars, auditVars, extVars, svcVars>>

\* POST /api/requesters/:id/api-keys
GenerateApiKey(rid, exp) ==
  /\ nextReq + nextKey < MaxRows
  /\ LET pair == generateApiKeyPair(nextKey + 1, nextKey + 1)
         hashedSecret == hashApiKeySecret(pair.keySecret)
     IN IF rid \in DOMAIN requesters
        THEN /\ nextKey' = nextKey + 1
             /\ apiKeys' = apiKeys @@ ((nextKey + 1) :>
                             [keyId |-> pair.keyId,
                              keySecret |-> hashedSecret,
                              requesterId |-> rid,
                              enabled |-> TRUE,
                              expiresAt |-> exp,
                              lastUsedAt |-> Null])
             /\ issued' = issued @@ ((nextKey + 1) :> pair.keySecret)
             /\ response' = [op |-> "generateApiKey", status |-> 201,
                             exposed |-> {pair.keyId, FullApiKey(pair)}]
        ELSE /\ UNCHANGED <<nextKey, apiKeys, issued>>
             /\ response' = InternalError("generateApiKey")
  /\ UNCHANGED <<now, requesters, nextReq, val, touch>>
  /\ UNCHANGED <<adminVars, auditVars, extVars, svcVars>>

\* scripts/setup-initial-requester.ts is a process run by the operator: what
\* it created, what it printed of the key, and its exit code
IdleScript == [pc |-> "idle", requesterId |-> 0, printed |-> {}, exit |-> 0]

ScriptFrame ==
  UNCHANGED <<adminVars, auditVars, extVars, logs, policies, policyReply,
              cookieReply, login>>

\* setup() up to the hashing of the secret: prisma.requester.create
SetupInitialRequester ==
  /\ script.pc \in {"idle", "done", "failed"}
  /\ nextReq + nextKey + 2 <= MaxRows
  /\ nextReq' = nextReq + 1
  /\ requesters' = requesters @@ ((nextReq + 1) :> [enabled |-> TRUE])
  /\ script' = [IdleScript EXCEPT !.pc = "key", !.requesterId = nextReq + 1]
  /\ UNCHANGED <<now, apiKeys, nextKey, issued, val, touch, response>>
  /\ ScriptFrame

\* setup() after the hashing: prisma.apiKey.create for the requester it made.
\* The insert is rejected by api_keys_requesterId_fkey when that requester
\* has been deleted meanwhile; then the script prints no key and exits 1.
SetupApiKey ==
  /\ script.pc = "key"
  /\ LET pair == generateApiKeyPair(nextKey + 1, nextKey + 1)
         hashedSecret == hashApiKeySecret(pair.keySecret)
     IN IF script.requesterId \in DOMAIN requesters
        THEN /\ nextKey' = nextKey + 1
             /\ apiKeys' = apiKeys @@ ((nextKey + 1) :>
                             [keyId |-> pair.keyId,
                              keySecret |-> hashedSecret,
                              requesterId |-> script.requesterId,
                              enabled |-> TRUE,
                              expiresAt |-> Null,
                              lastUsedAt |-> Null])
             /\ issued' = issued @@ ((nextKey + 1) :> pair.keySecret)
             /\ script' = [script EXCEPT !.pc = "done",
                                         !.printed = {pair.keyId, FullApiKey(pair)}]
        ELSE /\ UNCHANGED <<nextKey, apiKeys, issued>>
             /\ script' = [script EXCEPT !.pc = "failed", !.exit = 1]
  /\ UNCHANGED <<now, requesters, nextReq, val, touch, response>>
  /\ ScriptFrame

\* the fields of an api_keys row that the listings select
ListedKeyFields(id) == {apiKeys[id].keyId}

\* GET /api/requesters
ListRequesters ==
  /\ response' = [op |-> "list", status |-> 200,
                  exposed |-> UNION {ListedKeyFields(id) : id \in DOMAIN apiKeys}]
  /\ UNCHANGED <<now, requesters, nextReq, apiKeys, nextKey, issued, val, touch>>
  /\ UNCHANGED <<adminVars, auditVars, extVars, svcVars>>

\* GET /api/api-keys
ListApiKeys ==
  /\ response' = [op |-> "list", status |-> 200,
                  exposed |-> UNION {ListedKeyFields(id) : id \in DOMAIN apiKeys}]
  /\ UNCHANGED <<now, requesters, nextReq, apiKeys, nextKey, issued, val, touch>>
  /\ UNCHANGED <<adminVars, auditVars, extVars, svcVars>>

\* DELETE /api/api-keys/:id
RevokeApiKey(id) ==
  /\ IF id \in DOMAIN apiKeys
     THEN /\ apiKeys' = RemoveRows(apiKeys, {id})
          /\ response' = [op |-> "write", status |-> 200, exposed |-> {}]
     ELSE /\ UNCHANGED apiKeys
          /\ response' = InternalError("revokeApiKey")
  /\ UNCHANGED <<now, requesters, nextReq, nextKey, issued, val, touch>>
  /\ UNCHANGED <<adminVars, auditVars, extVars, svcVars>>

\* PUT /api/api-keys/:id/enable and PUT /api/api-keys/:id/disable
SetApiKeyEnabled(id, en) ==
  /\ IF id \in DOMAIN apiKeys
     THEN /\ apiKeys' = [apiKeys EXCEPT ![id].enabled = en]
          /\ response' = [op |-> "write",
                          status |-> 200, exposed |-> {}]
     ELSE /\ UNCHANGED apiKeys
          /\ response' = InternalError(IF en THEN "enableApiKey" ELSE "disableApiKey")
  /\ UNCHANGED <<now, requesters, nextReq, nextKey, issued, val, touch>>
  /\ UNCHANGED <<adminVars, auditVars, extVars, svcVars>>

EnableApiKey(id) == SetApiKeyEnabled(id, TRUE)

DisableApiKey(id) == SetApiKeyEnabled(id, FALSE)

\* ------------------------------------------------------------------------
\* The clock
\* ------------------------------------------------------------------------
Tick ==
  /\ now < MaxNow
  /\ now' = now + 1
  /\ UNCHANGED <<requesters, nextReq, apiKeys, nextKey, issued, val, touch, response>>
  /\ UNCHANGED <<adminVars, auditVars, extVars, svcVars>>

\* ------------------------------------------------------------------------
\* auth/admin.ts: passwords, the session map, the middleware
\* ------------------------------------------------------------------------
SESSION_EXPIRY_MS == 24 * 60 * 60 * 1000

Usernames == {"root", "ops"}

Password == <<"p", "w">>

WrongPassword == <<"n", "o">>

\* bcrypt hash of a password
hashPassword(password) == <<"$">> \o BcryptDigest(password)

\* bcrypt compare
validatePassword(password, passwordHash) == passwordHash = hashPassword(password)

AdminsNamed(u) == {a \in DOMAIN admins : admins[a].username = u}

\* Date.now() > session.expiresAt
SessionExpiredInclusive(sess, t) == t >= sess.expiresAt

SessionExpired(sess, t) == t > sess.expiresAt

\* validateSession: the value returned
validateSessionResult(sid) ==
  IF sid \notin DOMAIN sessions THEN Null
  ELSE IF SessionExpired(sessions[sid], now) THEN Null
  ELSE Some(sessions[sid])

\* validateSession: the session map it leaves
validateSessionStore(sid) ==
  IF sid \in DOMAIN sessions /\ SessionExpired(sessions[sid], now)
  THEN RemoveRows(sessions, {sid})
  ELSE sessions

deleteSessionKeep(map, sid) == map

\* deleteSession: Map.delete, a no-op on a missing id
deleteSession(map, sid) == RemoveRows(map, {sid})

\* a sweep that clears the whole map
cleanupAllSessions == RemoveRows(sessions, DOMAIN sessions)

\* cleanupExpiredSessions: the session map it leaves
cleanupExpiredSessions ==
  RemoveRows(sessions, {sid \in DOMAIN sessions : SessionExpired(sessions[sid], now)})

\* the ids that a step took out of the session map
Dropped(after) == (DOMAIN sessions) \ (DOMAIN after)

IdleMw == [pc |-> "idle", sid |-> Null, session |-> Null, result |-> "none"]

IdleSetup == [pc |-> "idle", username |-> "", status |-> 0]

\* the session ids a caller may present: those generated so far and one
\* that never was
SessionIds == 1..(nextSession + 1)

IdleLogin == [pc |-> "idle", username |-> "", password |-> <<>>,
              admin |-> Null, status |-> 0]

\* prisma.admin.findUnique by username: the row as it is when it is read
findAdmin(u) ==
  IF AdminsNamed(u) = {} THEN Null
  ELSE LET a == CHOOSE x \in AdminsNamed(u) : TRUE
       IN Some([id |-> a, username |-> admins[a].username,
                passwordHash |-> admins[a].passwordHash,
                enabled |-> admins[a].enabled])

\* authenticateAdmin once the row has been read: the password is compared
\* with the hash of the row that was read
authenticateAdmin(admin, pw) ==
  IF validatePassword(pw, admin.passwordHash)
  THEN Some([adminId |-> admin.id, username |-> admin.username])
  ELSE Null

\* what stays of a login request once it is answered
LoginDone(status) == [IdleLogin EXCEPT !.pc = "done", !.status = status]

LoginFrame ==
  UNCHANGED <<keyVars, auditVars, extVars, logs, policies, policyReply,
              cookieReply, script>>

\* POST /api/admin/login up to the password comparison: authenticateAdmin
\* reads the account and returns null when it is missing or disabled
Login(u, pw) ==
  /\ login.pc \in {"idle", "done"}
  /\ nextSession < MaxSessions
  /\ login' = IF IsNull(findAdmin(u)) \/ ~Get(findAdmin(u)).enabled
              THEN LoginDone(401)
              ELSE [IdleLogin EXCEPT !.pc = "compare", !.username = u,
                                     !.password = pw, !.admin = findAdmin(u)]
  /\ UNCHANGED <<now, adminVars>>
  /\ LoginFrame

\* the comparison settles: a wrong password is answered 401; otherwise
\* createSession stores a session with a fresh id for the account that was
\* read, which is not read again
LoginCompare ==
  /\ login.pc = "compare"
  /\ LET admin == authenticateAdmin(Get(login.admin), login.password)
     IN IF IsNull(admin)
        THEN /\ login' = LoginDone(401)
             /\ UNCHANGED <<nextSession, sessions, everCreated>>
        ELSE /\ login' = LoginDone(200)
             /\ nextSession' = nextSession + 1
             /\ sessions' = sessions @@ ((nextSession + 1) :>
                              [sessionId |-> nextSession + 1,
                               username |-> Get(admin).username,
                               adminId |-> Get(admin).adminId,
                               createdAt |-> now,
                               expiresAt |-> now + SESSION_EXPIRY_MS])
             /\ everCreated' = everCreated @@ ((nextSession + 1) :> now)
  /\ UNCHANGED <<now, advances, admins, nextAdmin, setup, setupCreated, removed,
                 revoked, mw, check>>
  /\ LoginFrame

\* POST /api/admin/logout
Logout(sid) ==
  /\ sessions' = deleteSession(sessions, sid)
  /\ removed' = removed \cup Dropped(deleteSession(sessions, sid))
  /\ UNCHANGED <<now, advances, admins, nextAdmin, setup, setupCreated, nextSession,
                 everCreated, revoked, mw, check>>
  /\ UNCHANGED <<keyVars, auditVars, extVars, svcVars>>

\* GET /api/admin/session: validateSession and nothing else
SessionCheck(sid) ==
  /\ sessions' = validateSessionStore(sid)
  /\ removed' = removed \cup Dropped(validateSessionStore(sid))
  /\ check' = [seq |-> 1 - check.seq, sid |-> sid,
               valid |-> ~IsNull(validateSessionResult(sid))]
  /\ UNCHANGED <<now, advances, admins, nextAdmin, setup, setupCreated, nextSession,
                 everCreated, revoked, mw>>
  /\ UNCHANGED <<keyVars, auditVars, extVars, svcVars>>

\* setInterval(cleanupExpiredSessions, 15 * 60 * 1000)
Sweep ==
  /\ sessions' = cleanupExpiredSessions
  /\ removed' = removed \cup Dropped(cleanupExpiredSessions)
  /\ UNCHANGED <<now, advances, admins, nextAdmin, setup, setupCreated, nextSession,
                 everCreated, revoked, mw, check>>
  /\ UNCHANGED <<keyVars, auditVars, extVars, svcVars>>

\* createAdminMiddleware lines 138-152: the header is read, the session is
\* validated and the lookup of the admin account is issued
MwBegin(hdr) ==
  /\ mw.pc \in {"idle", "done"}
  /\ IF IsNull(hdr)
     THEN /\ mw' = [IdleMw EXCEPT !.pc = "done", !.result = "noSession"]
          /\ UNCHANGED <<sessions, removed>>
     ELSE /\ sessions' = validateSessionStore(Get(hdr))
          /\ removed' = removed \cup Dropped(validateSessionStore(Get(hdr)))
          /\ IF IsNull(validateSessionResult(Get(hdr)))
             THEN mw' = [IdleMw EXCEPT !.pc = "done", !.sid = hdr,
                                       !.result = "invalidSession"]
             ELSE mw' = [IdleMw EXCEPT !.pc = "lookup", !.sid = hdr,
                                       !.session = validateSessionResult(Get(hdr))]
  /\ UNCHANGED <<now, advances, admins, nextAdmin, setup, setupCreated, nextSession,
                 everCreated, revoked, check>>
  /\ UNCHANGED <<keyVars, auditVars, extVars, svcVars>>

\* the admin account of a session exists and is enabled
AdminUsable(aid) == aid \in DOMAIN admins /\ admins[aid].enabled

\* createAdminMiddleware lines 150-164: the account is read; a missing or
\* disabled account evicts the session and rejects the request
MwFinish ==
  /\ mw.pc = "lookup"
  /\ IF AdminUsable(Get(mw.session).adminId)
     THEN /\ mw' = [mw EXCEPT !.pc = "done", !.result = "accepted"]
          /\ UNCHANGED <<sessions, removed, revoked>>
     ELSE /\ sessions' = deleteSession(sessions, Get(mw.sid))
          /\ removed' = removed \cup Dropped(deleteSession(sessions, Get(mw.sid)))
          /\ revoked' = revoked \cup {Get(mw.sid)}
          /\ mw' = [mw EXCEPT !.pc = "done", !.result = "adminGone"]
  /\ UNCHANGED <<now, advances, admins, nextAdmin, setup, setupCreated, nextSession,
                 everCreated, check>>
  /\ UNCHANGED <<keyVars, auditVars, extVars, svcVars>>

\* the status of the answer to an error thrown by a beforeHandle hook when
\* neither the hook nor an onError handler assigns one
UncaughtErrorStatus == 500

\* createAdminMiddleware lines 140-157: what the hook throws, if anything
AdminGuardThrown(result) ==
  IF result = "noSession" THEN Some("Unauthorized: No session provided")
  ELSE IF result = "invalidSession"
       THEN Some("Unauthorized: Invalid or expired session")
       ELSE IF result = "adminGone"
            THEN Some("Unauthorized: Admin account disabled or deleted")
            ELSE Null

\* the answer of a route behind guard({ beforeHandle: requireAdmin }): the
\* hook never assigns set.status, a thrown error keeps the handler from
\* running, and so does the value the hook returns when it accepts
AdminGuardReply(result) ==
  IF IsNull(AdminGuardThrown(result))
  THEN [status |-> 200, handlerRan |-> FALSE, message |-> Null]
  ELSE [status |-> UncaughtErrorStatus, handlerRan |-> FALSE,
        message |-> AdminGuardThrown(result)]

\* ------------------------------------------------------------------------
\* The session store of auth/admin.ts driven directly, and the cookie
\* session store of index.ts
\* ------------------------------------------------------------------------
\* createSession: the session map after a session with the fresh id sid is set
createSession(map, sid, adminId, username, t) ==
  map @@ (sid :> [sessionId |-> sid, username |-> username,
                  adminId |-> adminId, createdAt |-> t,
                  expiresAt |-> t + SESSION_EXPIRY_MS])

\* createSession(adminId, username)
CreateSession(adminId, u) ==
  /\ nextSession < MaxStore
  /\ nextSession' = nextSession + 1
  /\ sessions' = createSession(sessions, nextSession + 1, adminId, u, now)
  /\ everCreated' = everCreated @@ ((nextSession + 1) :> now)
  /\ UNCHANGED <<now, advances, admins, nextAdmin, setup, setupCreated, removed,
                 revoked, mw, check>>
  /\ UNCHANGED <<keyVars, auditVars, extVars, svcVars>>

\* index.ts: ADMIN_USERNAME, the only user of the cookie sessions
CookieUser == "admin"

\* index.ts POST /api/auth/login: sessions.set(sessionId, { username, createdAt })
cookieCreate(map, sid, t) == map @@ (sid :> [username |-> CookieUser, createdAt |-> t])

\* index.ts requireAuth: the request passes when the map has the session id
requireAuthAccepts(map, sid) == sid \in DOMAIN map

\* index.ts requireAuth: a session that passes has its createdAt set to now
requireAuthStore(map, sid, t) ==
  IF sid \in DOMAIN map THEN [map EXCEPT ![sid].createdAt = t] ELSE map

NoTwin == [seq |-> 0, sid |-> 0, admin |-> FALSE, cookie |-> FALSE]

\* one login at each of the two servers at the same instant; both sessions
\* are known by the same number
TwinCreate ==
  /\ nextSession < MaxStore
  /\ nextSession' = nextSession + 1
  /\ sessions' = createSession(sessions, nextSession + 1, 1, CookieUser, now)
  /\ everCreated' = everCreated @@ ((nextSession + 1) :> now)
  /\ cookies' = cookieCreate(cookies, nextSession + 1, now)
  /\ UNCHANGED <<now, advances, admins, nextAdmin, setup, setupCreated, removed,
                 revoked, mw, check>>
  /\ UNCHANGED <<keyVars, auditVars, gate, twin, retrieved, stats, svcVars>>

\* the same session presented to both servers at the same instant:
\* validateSession at one, requireAuth at the other
TwinValidate(sid) ==
  /\ sessions' = validateSessionStore(sid)
  /\ removed' = removed \cup Dropped(validateSessionStore(sid))
  /\ cookies' = requireAuthStore(cookies, sid, now)
  /\ twin' = [seq |-> 1 - twin.seq, sid |-> sid,
              admin |-> ~IsNull(validateSessionResult(sid)),
              cookie |-> requireAuthAccepts(cookies, sid)]
  /\ UNCHANGED <<now, advances, admins, nextAdmin, setup, setupCreated, nextSession,
                 everCreated, revoked, mw, check>>
  /\ UNCHANGED <<keyVars, auditVars, gate, retrieved, stats, svcVars>>

\* ------------------------------------------------------------------------
\* index.ts: the cookie sessions served on their own
\* ------------------------------------------------------------------------
\* cleanupSessions: maxAge
COOKIE_MAX_AGE == 24 * 60 * 60 * 1000

CookiePassword == <<"c", "p">>

\* requireAuth's answer; lastAccess is not sent: it records the createdAt
\* the session had when the request arrived
NoCookieReply == [sid |-> 0, status |-> 0, at |-> 0, lastAccess |-> Null]

CookieFrame ==
  UNCHANGED <<keyVars, auditVars, gate, twin, retrieved, stats, logs,
              policies, policyReply, script, login>>

\* POST /api/auth/login: a session with a fresh id for the right credentials
CookieLogin(u, pw) ==
  /\ nextSession < MaxStore
  /\ IF u = CookieUser /\ pw = CookiePassword
     THEN /\ nextSession' = nextSession + 1
          /\ cookies' = cookieCreate(cookies, nextSession + 1, now)
     ELSE UNCHANGED <<nextSession, cookies>>
  /\ UNCHANGED <<advances, admins, nextAdmin, setup, setupCreated, sessions,
                 everCreated, removed, revoked, mw, check, cookieReply>>
  /\ CookieFrame

\* a request to a route behind requireAuth
RequireAuth(sid) ==
  /\ cookieReply' = [sid |-> sid,
                     status |-> IF requireAuthAccepts(cookies, sid) THEN 200
                                ELSE 401,
                     at |-> now,
                     lastAccess |-> IF sid \in DOMAIN cookies
                                    THEN Some(cookies[sid].createdAt)
                                    ELSE Null]
  /\ cookies' = requireAuthStore(cookies, sid, now)
  /\ UNCHANGED adminVars
  /\ CookieFrame

\* cleanupSessions, run every hour
cleanupSessions ==
  RemoveRows(cookies, {sid \in DOMAIN cookies :
                         now - cookies[sid].createdAt > COOKIE_MAX_AGE})

CleanupSessions ==
  /\ cookies' = cleanupSessions
  /\ UNCHANGED <<adminVars, cookieReply>>
  /\ CookieFrame

\* POST /api/auth/logout
CookieLogout(sid) ==
  /\ cookies' = RemoveRows(cookies, {sid})
  /\ UNCHANGED <<adminVars, cookieReply>>
  /\ CookieFrame

\* ------------------------------------------------------------------------
\* POST /api/admin/setup and the admins table
\* ------------------------------------------------------------------------
SetupTasks == {1, 2}

\* lines 143-157: the admins are counted; any admin means 403
SetupCount(p, u) ==
  /\ setup[p].pc = "idle"
  /\ IF Cardinality(DOMAIN admins) > 0
     THEN setup' = [setup EXCEPT ![p] = [pc |-> "done", username |-> u, status |-> 403]]
     ELSE setup' = [setup EXCEPT ![p] = [pc |-> "create", username |-> u, status |-> 0]]
  /\ UNCHANGED <<now, advances, admins, nextAdmin, setupCreated, sessions, nextSession,
                 everCreated, removed, revoked, mw, check>>
  /\ UNCHANGED <<keyVars, auditVars, extVars, svcVars>>

\* lines 159-183: the password is hashed and the row created; a taken
\* username fails the unique index and the handler answers 500
SetupCreate(p) ==
  /\ setup[p].pc = "create"
  /\ IF AdminsNamed(setup[p].username) # {}
     THEN /\ setup' = [setup EXCEPT ![p].pc = "done", ![p].status = 500]
          /\ UNCHANGED <<admins, nextAdmin, setupCreated>>
     ELSE /\ admins' = admins @@ ((nextAdmin + 1) :>
                         [username |-> setup[p].username,
                          passwordHash |-> hashPassword(Password),
                          enabled |-> TRUE])
          /\ nextAdmin' = nextAdmin + 1
          /\ setupCreated' = setupCreated + 1
          /\ setup' = [setup EXCEPT ![p].pc = "done", ![p].status = 200]
  /\ UNCHANGED <<now, advances, sessions, nextSession, everCreated, removed, revoked,
                 mw, check>>
  /\ UNCHANGED <<keyVars, auditVars, extVars, svcVars>>

\* the enabled column of an admins row is changed in the database
SetAdminEnabled(aid, en) ==
  /\ aid \in DOMAIN admins
  /\ admins[aid].enabled # en
  /\ admins' = [admins EXCEPT ![aid].enabled = en]
  /\ UNCHANGED <<now, advances, nextAdmin, setup, setupCreated, sessions, nextSession,
                 everCreated, removed, revoked, mw, check>>
  /\ UNCHANGED <<keyVars, auditVars, extVars, svcVars>>

\* an admins row is deleted in the database
DeleteAdmin(aid) ==
  /\ aid \in DOMAIN admins
  /\ admins' = RemoveRows(admins, {aid})
  /\ UNCHANGED <<now, advances, nextAdmin, setup, setupCreated, sessions, nextSession,
                 everCreated, removed, revoked, mw, check>>
  /\ UNCHANGED <<keyVars, auditVars, extVars, svcVars>>

\* the clock moves by one millisecond or by the session lifetime
Advance(d) ==
  /\ advances < MaxAdvances
  /\ advances' = advances + 1
  /\ now' = now + d
  /\ UNCHANGED <<admins, nextAdmin, setup, setupCreated, sessions, nextSession,
                 everCreated, removed, revoked, mw, check>>
  /\ UNCHANGED <<requesters, nextReq, apiKeys, nextKey, issued, val, touch, response>>
  /\ UNCHANGED <<auditVars, extVars, svcVars>>

\* ------------------------------------------------------------------------
\* src/apps/backend/src/services/kms-persistent.ts and the access-request
\* routes: the gateway in front of the key holder, the audit log and the
\* request history.  The key holder is a library; what it appends to the
\* audit log is taken from the repository's end-to-end tests.
\* ------------------------------------------------------------------------
credVars == <<requesters, nextReq, apiKeys, nextKey, issued, val, touch, response>>

KeyHolderId == "kms-main"

\* body.requesterId: missing, an ordinary requester, the key holder's own id
RequesterIds == {"", "alice", KeyHolderId}

\* body.timeRange: missing, or a range of key timestamps
TimeRanges == {Null, Some([startTime |-> 1, endTime |-> 2])}

\* the same with a range that ends before it starts
AnyTimeRanges == TimeRanges \cup {Some([startTime |-> 2, endTime |-> 1])}

IdleGw == [pc |-> "idle", calls |-> 0, request |-> Null, response |-> Null,
           logged |-> 0, saved |-> FALSE,
           http |-> [status |-> 0, granted |-> FALSE, privateKeys |-> {},
                     denialReason |-> Null]]

\* an audit entry as the key holder builds it; ids are fresh
AuditEntry(n, type, actor, target, tr, ok) ==
  [id |-> n, timestamp |-> now, eventType |-> type, actor |-> actor,
   target |-> target, timeRange |-> tr, success |-> ok]

\* PrismaAuditLog.append: the row stored for an entry
AuditRowOf(entry) ==
  [id |-> entry.id, timestamp |-> entry.timestamp,
   eventType |-> entry.eventType, actor |-> entry.actor,
   target |-> entry.target,
   startTime |-> IF IsNull(entry.timeRange) THEN Null
                 ELSE Some(Get(entry.timeRange).startTime),
   endTime |-> IF IsNull(entry.timeRange) THEN Null
               ELSE Some(Get(entry.timeRange).endTime),
   success |-> entry.success]

\* JavaScript truthiness of a nullable BigInt column
TruthyColumn(col) == ~IsNull(col) /\ Get(col) # 0

\* PrismaAuditLog.toAuditLogEntry
toAuditLogEntry(row) ==
  [id |-> row.id, timestamp |-> row.timestamp, eventType |-> row.eventType,
   actor |-> row.actor,
   target |-> IF IsNull(row.target) \/ Get(row.target) = "" THEN Null
              ELSE row.target,
   timeRange |-> IF TruthyColumn(row.startTime) /\ TruthyColumn(row.endTime)
                 THEN Some([startTime |-> Get(row.startTime),
                            endTime |-> Get(row.endTime)])
                 ELSE Null,
   success |-> row.success]

\* PrismaAuditLog.getAll: rows by ascending timestamp.  Rows are appended
\* with the clock's value, which never decreases, so the stored order is
\* such an order: the answer in which rows of equal timestamp come back in
\* insertion order (RetrieveAll gives every answer).
getAll == [i \in 1..Len(auditLog) |-> toAuditLogEntry(auditLog[i])]

\* the key holder's answer
GrantedResponse(tr) ==
  [granted |-> TRUE, privateKeys |-> Some(tr.startTime..tr.endTime),
   denialReason |-> Null]

DeniedResponse ==
  [granted |-> FALSE, privateKeys |-> Null, denialReason |-> Some("policy")]

\* the events the key holder logs after ACCESS_REQUEST when it grants, in the
\* order of its appends; each is one PrismaAuditLog.append
GrantedEvents == <<"ACCESS_GRANTED", "KEY_GENERATION", "KEY_DISTRIBUTION">>

\* the event the key holder logs when it denies
DeniedEvents == <<"ACCESS_DENIED">>

OutcomeEvents(granted) == IF granted THEN GrantedEvents ELSE DeniedEvents

\* the k-th outcome entry, built when it is appended: its actor is the key
\* holder, its target the requester
OutcomeEntry(req, granted, k) ==
  AuditEntry(Len(auditLog) + 1, OutcomeEvents(granted)[k], KeyHolderId,
             Some(req.requesterId), Some(req.timeRange), granted)

\* PrismaAccessRequestStore.save: the history row
HistoryRow(call, req, resp) ==
  [call |-> call, requesterId |-> req.requesterId,
   startTime |-> req.timeRange.startTime, endTime |-> req.timeRange.endTime,
   granted |-> resp.granted, denialReason |-> resp.denialReason,
   keyCount |-> IF IsNull(resp.privateKeys) THEN Null
                ELSE Some(Cardinality(Get(resp.privateKeys)))]

\* KMSPersistentService.authorizeAccess with a failed history write rethrown
authorizeAccessRethrow(resp, saved) == IF saved THEN Some(resp) ELSE Null

\* KMSPersistentService.authorizeAccess: what the call returns once the key
\* holder has answered and the history write has settled (null: it threw)
authorizeAccess(resp, saved) == Some(resp)

\* POST /api/access-requests: the body returned for the service's answer
AccessRequestReply(result) ==
  IF IsNull(result)
  THEN [status |-> 500, granted |-> FALSE, privateKeys |-> {},
        denialReason |-> Null]
  ELSE IF Get(result).granted /\ ~IsNull(Get(result).privateKeys)
       THEN [status |-> 200, granted |-> TRUE,
             privateKeys |-> Get(Get(result).privateKeys),
             denialReason |-> Null]
       ELSE [status |-> 200, granted |-> FALSE, privateKeys |-> {},
             denialReason |-> Get(result).denialReason]

\* POST /api/access-requests up to the call of the key holder: a body
\* without requesterId or timeRange is answered 400
SubmitAccessRequest(rid, tr) ==
  /\ gw.pc \in {"idle", "done"}
  /\ gw.calls < MaxCalls
  /\ gw' = IF rid = "" \/ IsNull(tr)
           THEN [IdleGw EXCEPT !.pc = "done", !.calls = gw.calls + 1,
                               !.http.status = 400]
           ELSE [IdleGw EXCEPT !.pc = "request", !.calls = gw.calls + 1,
                               !.request = Some([requesterId |-> rid,
                                                 timeRange |-> Get(tr)])]
  /\ UNCHANGED <<now, credVars, adminVars, extVars, svcVars, auditLog, history,
                 listing>>

\* the key holder logs the request: its first PrismaAuditLog.append
KeyHolderRequest ==
  /\ gw.pc = "request"
  /\ LET req == Get(gw.request)
     IN auditLog' = Append(auditLog, AuditRowOf(
                      AuditEntry(Len(auditLog) + 1, "ACCESS_REQUEST",
                                 req.requesterId, Null, Some(req.timeRange),
                                 TRUE)))
  /\ gw' = [gw EXCEPT !.pc = "keyholder"]
  /\ UNCHANGED <<now, credVars, adminVars, extVars, svcVars, history, listing>>

\* the key holder decides and appends the first entry of the outcome; a
\* denial has no further entry and is answered
KeyHolderDecide(granted) ==
  /\ gw.pc = "keyholder"
  /\ LET req == Get(gw.request)
     IN /\ auditLog' = Append(auditLog, AuditRowOf(OutcomeEntry(req, granted, 1)))
        /\ gw' = IF granted
                 THEN [gw EXCEPT !.pc = "log", !.logged = 1]
                 ELSE [gw EXCEPT !.pc = "save", !.logged = 1,
                                 !.response = Some(DeniedResponse)]
  /\ UNCHANGED <<now, credVars, adminVars, extVars, svcVars, history, listing>>

\* the granting key holder appends its next entry; after the last one it
\* answers with the keys
KeyHolderAppend ==
  /\ gw.pc = "log"
  /\ LET req == Get(gw.request)
         k == gw.logged + 1
     IN /\ auditLog' = Append(auditLog, AuditRowOf(OutcomeEntry(req, TRUE, k)))
        /\ gw' = IF k = Len(GrantedEvents)
                 THEN [gw EXCEPT !.pc = "save", !.logged = k,
                                 !.response = Some(GrantedResponse(req.timeRange))]
                 ELSE [gw EXCEPT !.logged = k]
  /\ UNCHANGED <<now, credVars, adminVars, extVars, svcVars, history, listing>>

\* an audit append of the key holder is rejected: the call throws with the
\* entries appended so far kept, and the route answers 500
KeyHolderThrow ==
  /\ gw.pc \in {"request", "keyholder", "log"}
  /\ gw' = [gw EXCEPT !.pc = "done", !.http = AccessRequestReply(Null)]
  /\ UNCHANGED <<now, credVars, adminVars, extVars, svcVars, auditLog, history, listing>>

\* the history write settles, authorizeAccess returns, the route replies
HistorySave(ok) ==
  /\ gw.pc = "save"
  /\ history' = IF ok
                THEN Append(history, HistoryRow(gw.calls, Get(gw.request),
                                                Get(gw.response)))
                ELSE history
  /\ gw' = [gw EXCEPT !.pc = "done", !.saved = ok,
                      !.http = AccessRequestReply(
                                 authorizeAccess(Get(gw.response), ok))]
  /\ UNCHANGED <<now, credVars, adminVars, extVars, svcVars, auditLog, listing>>

\* the clock between two audit appends
Elapse ==
  /\ now < MaxClock
  /\ now' = now + 1
  /\ UNCHANGED <<credVars, adminVars, extVars, svcVars, auditVars>>

\* ------------------------------------------------------------------------
\* PrismaAuditLog.getAll as the database may answer it: ORDER BY timestamp
\* leaves the order of rows of equal timestamp open
\* ------------------------------------------------------------------------
\* the positions of the request and outcome rows
DecisionRows ==
  {i \in 1..Len(auditLog) :
     auditLog[i].eventType \in {"ACCESS_REQUEST", "ACCESS_GRANTED", "ACCESS_DENIED"}}

\* every arrangement of the rows at the positions in S by ascending timestamp
RECURSIVE TimestampOrders(_)
TimestampOrders(S) ==
  IF S = {} THEN {<<>>}
  ELSE UNION {{<<i>> \o rest : rest \in TimestampOrders(S \ {i})} :
                i \in {k \in S : \A j \in S :
                                   auditLog[k].timestamp <= auditLog[j].timestamp}}

\* getAll answers with one of the admissible arrangements; of the answer the
\* ids of the request and outcome rows are kept, in the order returned
RetrieveAll ==
  /\ \E order \in TimestampOrders(DecisionRows) :
        retrieved' = [k \in 1..Len(order) |-> auditLog[order[k]].id]
  /\ UNCHANGED <<keyVars, adminVars, auditVars, gate, cookies, twin, stats, svcVars>>

\* ------------------------------------------------------------------------
\* PrismaAuditLog.getStatistics: four queries issued together, each of which
\* reads the table when the database runs it, then the summary
\* ------------------------------------------------------------------------
StatQueries == {"total", "byType", "byActor", "successCount"}

IdleStats == [pc |-> "idle", pending |-> {}, total |-> 0, byType |-> <<>>,
              byActor |-> <<>>, successCount |-> 0, result |-> Null]

\* prisma.auditLog.count()
CountAll == Len(auditLog)

\* prisma.auditLog.count({ where: { success: true } })
CountSuccess == Cardinality({i \in 1..Len(auditLog) : auditLog[i].success})

\* prisma.auditLog.groupBy({ by: [column], _count: true }): one group for
\* each value that occurs
GroupByEventType ==
  [v \in {auditLog[i].eventType : i \in 1..Len(auditLog)} |->
     Cardinality({i \in 1..Len(auditLog) : auditLog[i].eventType = v})]

GroupByActor ==
  [v \in {auditLog[i].actor : i \in 1..Len(auditLog)} |->
     Cardinality({i \in 1..Len(auditLog) : auditLog[i].actor = v})]

\* a quotient of two counts, kept as numerator and denominator; a
\* denominator of 0 is the NaN JavaScript computes for 0 / 0
Ratio(n, d) == [num |-> n, den |-> d]

successRateUnguarded(total, successCount) == Ratio(successCount, total)

\* total > 0 ? successCount / total : 0
successRate(total, successCount) ==
  IF total > 0 THEN Ratio(successCount, total) ELSE Ratio(0, 1)

\* getStatistics is called: Promise.all issues the four queries
GetStatisticsBegin ==
  /\ stats.pc \in {"idle", "done"}
  /\ stats' = [IdleStats EXCEPT !.pc = "reading", !.pending = StatQueries]
  /\ UNCHANGED <<keyVars, adminVars, auditVars, gate, cookies, twin, retrieved, svcVars>>

\* the database runs one of the pending queries against the table as it is
StatisticsQuery(q) ==
  /\ stats.pc = "reading"
  /\ q \in stats.pending
  /\ stats' = [stats EXCEPT
                 !.pending = @ \ {q},
                 !.total = IF q = "total" THEN CountAll ELSE @,
                 !.byType = IF q = "byType" THEN GroupByEventType ELSE @,
                 !.byActor = IF q = "byActor" THEN GroupByActor ELSE @,
                 !.successCount = IF q = "successCount" THEN CountSuccess
                                  ELSE @]
  /\ UNCHANGED <<keyVars, adminVars, auditVars, gate, cookies, twin, retrieved, svcVars>>

\* all four have answered: the summary is built and returned
GetStatisticsReturn ==
  /\ stats.pc = "reading"
  /\ stats.pending = {}
  /\ stats' = [stats EXCEPT
                 !.pc = "done",
                 !.result = Some([totalEntries |-> stats.total,
                                  entriesByType |-> stats.byType,
                                  entriesByActor |-> stats.byActor,
                                  successRate |->
                                    successRate(stats.total,
                                                stats.successCount)])]
  /\ UNCHANGED <<keyVars, adminVars, auditVars, gate, cookies, twin, retrieved, svcVars>>

\* ------------------------------------------------------------------------
\* KMSPersistentService.getAuditLogs and the retrievals of PrismaAuditLog
\* it chooses between
\* ------------------------------------------------------------------------
NoOptions == [timeRange |-> Null, eventType |-> Null, actor |-> Null]

\* the options a caller passes: each field present or absent
LogOptions ==
  [timeRange : {Null, Some([startTime |-> 1, endTime |-> 2])},
   eventType : {Null, Some("ACCESS_GRANTED")},
   actor : {Null, Some("alice")}]

NoLogs == [options |-> NoOptions, entries |-> <<>>]

\* entries.map(this.toAuditLogEntry)
EntriesOf(rows) == [i \in 1..Len(rows) |-> toAuditLogEntry(rows[i])]

\* PrismaAuditLog.retrieve
retrieve(range) ==
  EntriesOf(SelectSeq(auditLog,
                      LAMBDA row : /\ row.timestamp >= range.startTime
                                   /\ row.timestamp <= range.endTime))

\* PrismaAuditLog.retrieveByEventType
retrieveByEventType(eventType) ==
  EntriesOf(SelectSeq(auditLog, LAMBDA row : row.eventType = eventType))

\* PrismaAuditLog.retrieveByActor
retrieveByActor(actor) ==
  EntriesOf(SelectSeq(auditLog, LAMBDA row : row.actor = actor))

\* getAuditLogs: the first option present decides the retrieval
getAuditLogs(options) ==
  IF ~IsNull(options.timeRange) THEN retrieve(Get(options.timeRange))
  ELSE IF ~IsNull(options.eventType)
       THEN retrieveByEventType(Get(options.eventType))
  ELSE IF ~IsNull(options.actor) THEN retrieveByActor(Get(options.actor))
  ELSE getAll

GetAuditLogs(options) ==
  /\ logs' = [options |-> options, entries |-> getAuditLogs(options)]
  /\ UNCHANGED <<keyVars, adminVars, auditVars, extVars, policies, policyReply,
                 cookieReply, script, login>>

\* ------------------------------------------------------------------------
\* KMSPersistentService: the policy operations over PrismaPolicyStore
\* ------------------------------------------------------------------------
AllowAll == "allow-all"

\* the ids a caller may name
PolicyIds == {AllowAll, "policy-1", "policy-2"}

\* priority of the built-in policy, and the one of a custom policy
BuiltinPriority == -1000

Priorities == {BuiltinPriority, 0}

\* PrismaPolicyStore.initializeDefaults on the empty table
DefaultPolicies == AllowAll :> [enabled |-> TRUE, priority |-> BuiltinPriority]

NoPolicyReply == [op |-> "none", id |-> AllowAll, outcome |-> "none"]

PolicyFrame ==
  UNCHANGED <<keyVars, adminVars, auditVars, extVars, logs, cookieReply,
              script, login>>

\* PrismaPolicyStore.upsert
upsert(table, id, policy) ==
  [i \in DOMAIN table \cup {id} |-> IF i = id THEN policy ELSE table[i]]

\* addPolicy: create the policy or overwrite the one with its id
AddPolicy(id, en, prio) ==
  /\ policies' = upsert(policies, id, [enabled |-> en, priority |-> prio])
  /\ policyReply' = [op |-> "addPolicy", id |-> id, outcome |-> "void"]
  /\ PolicyFrame

\* removePolicy without the test for the built-in policy
removePolicyAny(table, id) ==
  IF id \in DOMAIN table
  THEN [table |-> RemoveRows(table, {id}), outcome |-> "true"]
  ELSE [table |-> table, outcome |-> "false"]

\* removePolicy: the built-in policy is refused with an error; otherwise
\* PrismaPolicyStore.delete answers whether a row was deleted
removePolicy(table, id) ==
  IF id = AllowAll THEN [table |-> table, outcome |-> "error"]
  ELSE IF id \in DOMAIN table
       THEN [table |-> RemoveRows(table, {id}), outcome |-> "true"]
       ELSE [table |-> table, outcome |-> "false"]

RemovePolicy(id) ==
  /\ policies' = removePolicy(policies, id).table
  /\ policyReply' = [op |-> "removePolicy", id |-> id,
                     outcome |-> removePolicy(policies, id).outcome]
  /\ PolicyFrame

\* enablePolicy / disablePolicy: prisma.policy.update, which rejects when
\* there is no such row
SetPolicyEnabled(id, en) ==
  /\ policies' = IF id \in DOMAIN policies
                 THEN [policies EXCEPT ![id].enabled = en]
                 ELSE policies
  /\ policyReply' = [op |-> IF en THEN "enablePolicy" ELSE "disablePolicy",
                     id |-> id,
                     outcome |-> IF id \in DOMAIN policies THEN "void"
                                 ELSE "error"]
  /\ PolicyFrame

EnablePolicy(id) == SetPolicyEnabled(id, TRUE)

DisablePolicy(id) == SetPolicyEnabled(id, FALSE)

\* ------------------------------------------------------------------------
\* PrismaAuditLog.append called with entries of any content
\* ------------------------------------------------------------------------
MaxEntries == 2

\* what an entry holds besides its id and timestamp; the time ranges include
\* ranges that start or end at 0
EntryContents ==
  [eventType : {"ACCESS_REQUEST", "ACCESS_DENIED"},
   actor : {"alice"},
   target : {Null, Some("alice")},
   timeRange : {Null, Some([startTime |-> 1, endTime |-> 2]),
                Some([startTime |-> 0, endTime |-> 2]),
                Some([startTime |-> 1, endTime |-> 0])},
   success : BOOLEAN]

EntryOf(c) ==
  AuditEntry(Len(auditLog) + 1, c.eventType, c.actor, c.target, c.timeRange,
             c.success)

\* PrismaAuditLog.append
AppendEntry(c) ==
  /\ Len(auditLog) < MaxEntries
  /\ auditLog' = Append(auditLog, AuditRowOf(EntryOf(c)))
  /\ UNCHANGED <<now, credVars, adminVars, extVars, svcVars, history, gw, listing>>

\* PrismaAuditLog.clear: deleteMany empties the table; no route calls it, a
\* holder of the log object does
clear ==
  /\ auditLog' = <<>>
  /\ UNCHANGED <<now, credVars, adminVars, extVars, svcVars, history, gw, listing>>

\* ------------------------------------------------------------------------
\* GET /api/access-requests: the listing rebuilt from the audit log
\* ------------------------------------------------------------------------
\* the reply's requests and total; the limit and offset it echoes are left out
NoListing == [requests |-> <<>>, total |-> -1]

\* the query a caller sends without parameters: limit and offset default to
\* '50' and '0'
DefaultQuery ==
  [requesterId |-> Null, startTime |-> Null, endTime |-> Null,
   status |-> Null, limit |-> 50, offset |-> 0]

\* the queries tried: each parameter set alone, and a second page of one
Queries ==
  {DefaultQuery,
   [DefaultQuery EXCEPT !.requesterId = Some("alice")],
   [DefaultQuery EXCEPT !.startTime = Some(1)],
   [DefaultQuery EXCEPT !.startTime = Some(1), !.endTime = Some(1)],
   [DefaultQuery EXCEPT !.status = Some("granted")],
   [DefaultQuery EXCEPT !.status = Some("denied")],
   [DefaultQuery EXCEPT !.limit = 1],
   [DefaultQuery EXCEPT !.offset = 1],
   [DefaultQuery EXCEPT !.limit = 1, !.offset = 1]}

ByRequester(entries, q) ==
  IF IsNull(q.requesterId) THEN entries
  ELSE SelectSeq(entries, LAMBDA e : e.actor = Get(q.requesterId))

ByWindow(entries, q) ==
  IF ~IsNull(q.startTime) /\ ~IsNull(q.endTime)
  THEN SelectSeq(entries, LAMBDA e : /\ e.timestamp >= Get(q.startTime)
                                     /\ e.timestamp <= Get(q.endTime))
  ELSE entries

ByStatus(entries, q) ==
  IF q.status = Some("granted")
  THEN SelectSeq(entries, LAMBDA e : e.eventType = "ACCESS_GRANTED")
  ELSE IF q.status = Some("denied")
       THEN SelectSeq(entries, LAMBDA e : e.eventType = "ACCESS_DENIED")
       ELSE entries

FilteredEntries(q) == ByStatus(ByWindow(ByRequester(getAll, q), q), q)

\* Array.prototype.slice(from, to) with 0 <= from <= to
Slice(s, from, to) ==
  SubSeq(s, from + 1, IF to < Len(s) THEN to ELSE Len(s))

IsOutcome(e) == e.eventType \in {"ACCESS_GRANTED", "ACCESS_DENIED"}

\* the positions entries.find(...) accepts for the request entry e
OutcomeMatches(entries, e) ==
  {i \in 1..Len(entries) : /\ entries[i].actor = e.actor
                           /\ entries[i].timestamp > e.timestamp
                           /\ IsOutcome(entries[i])}

\* Array.prototype.find: the first accepted element, or undefined
FindOutcome(entries, e) ==
  LET hits == OutcomeMatches(entries, e)
  IN IF hits = {} THEN Null
     ELSE Some(entries[CHOOSE i \in hits : \A j \in hits : i <= j])

StatusOf(entries, e) ==
  LET found == FindOutcome(entries, e)
  IN IF ~IsNull(found) /\ Get(found).eventType = "ACCESS_GRANTED"
     THEN "granted" ELSE "denied"

\* one element of the reply; outcome is not sent: it records the id of the
\* entry that find returned, for the correlation properties
ListedRequest(entries, e) ==
  [id |-> e.id, timestamp |-> e.timestamp, requesterId |-> e.actor,
   timeRange |-> e.timeRange, status |-> StatusOf(entries, e),
   outcome |-> IF IsNull(FindOutcome(entries, e)) THEN Null
               ELSE Some(Get(FindOutcome(entries, e)).id)]

ListAccessRequests(q) ==
  /\ LET entries == FilteredEntries(q)
         page == Slice(entries, q.offset, q.offset + q.limit)
         reqs == SelectSeq(page, LAMBDA e : e.eventType = "ACCESS_REQUEST")
         requests == [i \in 1..Len(reqs) |-> ListedRequest(entries, reqs[i])]
     IN listing' = [requests |-> requests, total |-> Len(requests)]
  /\ UNCHANGED <<now, credVars, adminVars, extVars, svcVars, auditLog, history, gw>>

\* ------------------------------------------------------------------------
\* Initial state
\* ------------------------------------------------------------------------
NoResponse == [op |-> "none", status |-> 0, exposed |-> {}]

Init ==
  /\ now = 0
  /\ requesters = <<>>
  /\ nextReq = 0
  /\ apiKeys = <<>>
  /\ nextKey = 0
  /\ issued = <<>>
  /\ val = IdleVal
  /\ touch = Null
  /\ response = NoResponse
  /\ advances = 0
  /\ admins = <<>>
  /\ nextAdmin = 0
  /\ setup = [p \in SetupTasks |-> IdleSetup]
  /\ setupCreated = 0
  /\ sessions = <<>>
  /\ nextSession = 0
  /\ everCreated = <<>>
  /\ removed = {}
  /\ revoked = {}
  /\ mw = IdleMw
  /\ check = [seq |-> 0, sid |-> 0, valid |-> FALSE]
  /\ auditLog = <<>>
  /\ history = <<>>
  /\ gw = IdleGw
  /\ listing = NoListing
  /\ gate = IdleGate
  /\ cookies = <<>>
  /\ twin = NoTwin
  /\ retrieved = <<>>
  /\ stats = IdleStats
  /\ logs = NoLogs
  /\ policies = DefaultPolicies
  /\ policyReply = NoPolicyReply
  /\ cookieReply = NoCookieReply
  /\ script = IdleScript
  /\ login = IdleLogin

\* ------------------------------------------------------------------------
\* Specification of the credential store
\* ------------------------------------------------------------------------
\* the row ids a caller may name: the rows created so far and one that never was
ReqRowIds == 1..(nextReq + 1)

KeyRowIds == 1..(nextKey + 1)

Next ==
  \/ Tick
  \/ CreateRequester
  \/ \E id \in ReqRowIds, en \in BOOLEAN : UpdateRequester(id, en)
  \/ \E id \in ReqRowIds : DeleteRequester(id)
  \/ \E rid \in ReqRowIds, exp \in ExpiryChoices : GenerateApiKey(rid, exp)
  \/ ListRequesters
  \/ ListApiKeys
  \/ \E id \in KeyRowIds : RevokeApiKey(id)
  \/ \E id \in KeyRowIds : EnableApiKey(id)
  \/ \E id \in KeyRowIds : DisableApiKey(id)
  \/ \E s \in CredStrings : ValidateBegin(s)
  \/ ValidateLookup
  \/ ValidateVerify
  \/ TouchApply
  \/ TouchFail

Spec == Init /\ [][Next]_vars

\* the setup script running beside the routes that create, list, change and
\* delete requesters and keys, and beside validations; the clock stands
\* still and the keys do not expire
NextScript ==
  \/ SetupInitialRequester
  \/ SetupApiKey
  \/ CreateRequester
  \/ \E id \in ReqRowIds : DeleteRequester(id)
  \/ \E rid \in ReqRowIds : GenerateApiKey(rid, Null)
  \/ ListRequesters
  \/ ListApiKeys
  \/ \E id \in KeyRowIds : RevokeApiKey(id)
  \/ \E id \in KeyRowIds : EnableApiKey(id)
  \/ \E id \in KeyRowIds : DisableApiKey(id)
  \/ \E s \in CredStrings : ValidateBegin(s)
  \/ ValidateLookup
  \/ ValidateVerify
  \/ TouchApply
  \/ TouchFail

SpecScript == Init /\ [][NextScript]_vars

\* ------------------------------------------------------------------------
\* Specification of the credential store behind the API-key middleware
\* ------------------------------------------------------------------------
NextGate ==
  \/ Tick
  \/ CreateRequester
  \/ \E id \in ReqRowIds, en \in BOOLEAN : UpdateRequester(id, en)
  \/ \E id \in ReqRowIds : DeleteRequester(id)
  \/ \E rid \in ReqRowIds, exp \in ExpiryChoices : GenerateApiKey(rid, exp)
  \/ \E id \in KeyRowIds : RevokeApiKey(id)
  \/ \E id \in KeyRowIds : EnableApiKey(id)
  \/ \E id \in KeyRowIds : DisableApiKey(id)
  \/ \E h \in AuthHeaders : RequireApiKey(h)
  \/ ValidateLookup
  \/ ValidateVerify
  \/ RequireApiKeyReturn
  \/ TouchApply
  \/ TouchFail

SpecGate == Init /\ [][NextGate]_vars

\* ------------------------------------------------------------------------
\* Specification of the admin accounts and sessions
\* ------------------------------------------------------------------------
AdminRowIds == 1..nextAdmin

\* one setup request, the database changes to the admins table, logins,
\* logouts, session checks, the sweep and requests through the middleware
NextAdmin ==
  \/ \E d \in {1, SESSION_EXPIRY_MS} : Advance(d)
  \/ \E u \in Usernames : SetupCount(1, u)
  \/ SetupCreate(1)
  \/ \E a \in AdminRowIds, en \in BOOLEAN : SetAdminEnabled(a, en)
  \/ \E a \in AdminRowIds : DeleteAdmin(a)
  \/ \E u \in Usernames, pw \in {Password, WrongPassword} : Login(u, pw)
  \/ LoginCompare
  \/ \E sid \in SessionIds : Logout(sid)
  \/ \E sid \in SessionIds : SessionCheck(sid)
  \/ Sweep
  \/ \E hdr \in {Null} \cup {Some(sid) : sid \in SessionIds} : MwBegin(hdr)
  \/ MwFinish

SpecAdmin == Init /\ [][NextAdmin]_vars

\* ------------------------------------------------------------------------
\* Specifications of the session stores
\* ------------------------------------------------------------------------
\* the operations of the session store of auth/admin.ts in any order
NextStore ==
  \/ \E d \in {1, SESSION_EXPIRY_MS} : Advance(d)
  \/ \E u \in Usernames : CreateSession(1, u)
  \/ \E sid \in SessionIds : SessionCheck(sid)
  \/ \E sid \in SessionIds : Logout(sid)
  \/ Sweep

SpecStore == Init /\ [][NextStore]_vars

\* the same creations and validations at both session stores
NextTwin ==
  \/ \E d \in {1, SESSION_EXPIRY_MS} : Advance(d)
  \/ TwinCreate
  \/ \E sid \in SessionIds : TwinValidate(sid)

SpecTwin == Init /\ [][NextTwin]_vars

\* the cookie sessions
NextCookie ==
  \/ \E d \in {1, COOKIE_MAX_AGE} : Advance(d)
  \/ \E u \in {CookieUser, "guest"}, pw \in {CookiePassword, WrongPassword} :
        CookieLogin(u, pw)
  \/ \E sid \in SessionIds : RequireAuth(sid)
  \/ CleanupSessions
  \/ \E sid \in SessionIds : CookieLogout(sid)

SpecCookie == Init /\ [][NextCookie]_vars

\* concurrent setup requests and the database changes to the admins table
NextSetup ==
  \/ \E p \in SetupTasks, u \in Usernames : SetupCount(p, u)
  \/ \E p \in SetupTasks : SetupCreate(p)
  \/ \E a \in AdminRowIds, en \in BOOLEAN : SetAdminEnabled(a, en)
  \/ \E a \in AdminRowIds : DeleteAdmin(a)

SpecSetup == Init /\ [][NextSetup]_vars

\* ------------------------------------------------------------------------
\* Specification of the gateway alone
\* ------------------------------------------------------------------------
NextGateway ==
  \/ Elapse
  \/ \E rid \in RequesterIds, tr \in TimeRanges : SubmitAccessRequest(rid, tr)
  \/ KeyHolderRequest
  \/ \E granted \in BOOLEAN : KeyHolderDecide(granted)
  \/ KeyHolderAppend
  \/ KeyHolderThrow
  \/ \E ok \in BOOLEAN : HistorySave(ok)

SpecGateway == Init /\ [][NextGateway]_vars

\* the gateway given time ranges of either orientation
NextSubmit ==
  \/ Elapse
  \/ \E rid \in RequesterIds, tr \in AnyTimeRanges : SubmitAccessRequest(rid, tr)
  \/ KeyHolderRequest
  \/ \E granted \in BOOLEAN : KeyHolderDecide(granted)
  \/ KeyHolderAppend
  \/ KeyHolderThrow
  \/ \E ok \in BOOLEAN : HistorySave(ok)

SpecSubmit == Init /\ [][NextSubmit]_vars

\* the gateway and retrievals of the whole audit log
NextTrail ==
  \/ Elapse
  \/ \E rid \in RequesterIds, tr \in TimeRanges : SubmitAccessRequest(rid, tr)
  \/ KeyHolderRequest
  \/ \E granted \in BOOLEAN : KeyHolderDecide(granted)
  \/ KeyHolderAppend
  \/ KeyHolderThrow
  \/ \E ok \in BOOLEAN : HistorySave(ok)
  \/ RetrieveAll

SpecTrail == Init /\ [][NextTrail]_vars

\* the gateway appending to the audit log, one entry at a time, while
\* statistics are computed; the requests are well-formed and the history
\* writes succeed
NextStats ==
  \/ SubmitAccessRequest("alice", Some([startTime |-> 1, endTime |-> 2]))
  \/ KeyHolderRequest
  \/ \E granted \in BOOLEAN : KeyHolderDecide(granted)
  \/ KeyHolderAppend
  \/ KeyHolderThrow
  \/ HistorySave(TRUE)
  \/ GetStatisticsBegin
  \/ \E q \in StatQueries : StatisticsQuery(q)
  \/ GetStatisticsReturn

SpecStats == Init /\ [][NextStats]_vars

\* the gateway appending and getAuditLogs reading
NextLogs ==
  \/ Elapse
  \/ \E tr \in TimeRanges : SubmitAccessRequest("alice", tr)
  \/ KeyHolderRequest
  \/ \E granted \in BOOLEAN : KeyHolderDecide(granted)
  \/ KeyHolderAppend
  \/ KeyHolderThrow
  \/ \E ok \in BOOLEAN : HistorySave(ok)
  \/ \E options \in LogOptions : GetAuditLogs(options)

SpecLogs == Init /\ [][NextLogs]_vars

\* the policy operations
NextPolicy ==
  \/ \E id \in PolicyIds, en \in BOOLEAN, prio \in Priorities :
        AddPolicy(id, en, prio)
  \/ \E id \in PolicyIds : RemovePolicy(id)
  \/ \E id \in PolicyIds : EnablePolicy(id)
  \/ \E id \in PolicyIds : DisablePolicy(id)

SpecPolicy == Init /\ [][NextPolicy]_vars

\* entries appended to the audit log one after the other
NextAppend ==
  \/ Elapse
  \/ \E c \in EntryContents : AppendEntry(c)
  \/ clear

SpecAppend == Init /\ [][NextAppend]_vars

\* ------------------------------------------------------------------------
\* Specification of the gateway, the audit log and the listing
\* ------------------------------------------------------------------------
NextAudit ==
  \/ Elapse
  \/ \E rid \in RequesterIds, tr \in TimeRanges : SubmitAccessRequest(rid, tr)
  \/ KeyHolderRequest
  \/ \E granted \in BOOLEAN : KeyHolderDecide(granted)
  \/ KeyHolderAppend
  \/ KeyHolderThrow
  \/ \E ok \in BOOLEAN : HistorySave(ok)
  \/ \E q \in Queries : ListAccessRequests(q)

SpecAudit == Init /\ [][NextAudit]_vars


\* ------------------------------------------------------------------------
\* Properties of the credential store
\* ------------------------------------------------------------------------
\* the six checks of validateApiKey on the presented string, on the row the
\* store returned for it and at the instant the row was checked
AllSixChecksPass ==
  LET parts == SplitDot(val.input)
  IN /\ Len(parts) = 2
     /\ ~IsNull(val.snap)
     /\ Get(val.snap).keyId = parts[1]
     /\ Get(val.snap).enabled
     /\ (IsNull(Get(val.snap).expiresAt) \/ Get(Get(val.snap).expiresAt) >= val.checkedAt)
     /\ Get(val.snap).requester.enabled
     /\ Get(val.snap).keySecret = <<"$">> \o BcryptDigest(parts[2])

\* C1: a finished validateApiKey call returned the requester identity if and
\* only if all six checks passed on the store as it was read (two parts, key
\* found, key enabled, not expired, requester enabled, secret verified);
\* otherwise it returned null.
C1_ValidateIffAllChecks ==
  val.pc = "done" =>
    /\ (~IsNull(val.result)) <=> AllSixChecksPass
    /\ ~IsNull(val.result) =>
         Get(val.result) = [keyId |-> SplitDot(val.input)[1],
                            requesterId |-> Get(val.snap).requesterId]

C1_Witness ==
  /\ val.pc = "done"
  /\ ~IsNull(val.result)
  /\ ~IsNull(Get(val.snap).expiresAt)

\* C2: no validateApiKey call returns an identity while the owning requester
\* is disabled, that is, after the disabling update has completed.
C2_NoIdentityOnceRequesterDisabled ==
  [][~(/\ val.pc = "verify"
       /\ val'.pc = "done"
       /\ ~IsNull(val'.result)
       /\ Get(val.snap).requesterId \in DOMAIN requesters
       /\ ~requesters[Get(val.snap).requesterId].enabled)]_vars

\* C5: the store holds the hash of every secret and never the secret; a
\* response, or the printout of the setup script, contains the plaintext
\* secret of a key only if it is produced by the step that created that key;
\* the identity returned by validateApiKey never contains it.
C5_PlaintextOnlyAtCreation ==
  /\ [](/\ \A id \in DOMAIN apiKeys :
            /\ apiKeys[id].keySecret # issued[id]
            /\ ~Contains(apiKeys[id].keySecret, issued[id])
        /\ \A id \in DOMAIN issued :
            ~IsNull(val.result) => ~Contains(Get(val.result).keyId, issued[id]))
  /\ [][\A id \in DOMAIN issued' :
          /\ \A x \in response'.exposed :
               (response' # response /\ Contains(x, issued'[id]))
                 => (response'.op = "generateApiKey" /\ id \notin DOMAIN issued)
          /\ \A x \in script'.printed :
               (script' # script /\ Contains(x, issued'[id]))
                 => id \notin DOMAIN issued]_vars

C5_Witness ==
  /\ response.op = "list"
  /\ response.exposed # {}
  /\ ~IsNull(val.result)
  /\ script.printed # {}

\* ------------------------------------------------------------------------
\* Properties of the admin sessions and of the setup route
\* ------------------------------------------------------------------------
\* C3: each validateSession(id) returns the session if and only if id was
\* created, has not been removed from the map and now <= creation + TTL; it
\* returns null otherwise, and a created session that fails validation is
\* out of the map afterwards and stays out, so that later validations of it
\* return null as well.
C3_ValidateSessionIff ==
  [][/\ removed \subseteq removed'
     /\ check'.seq # check.seq =>
          /\ check'.valid <=>
               /\ check'.sid \in DOMAIN everCreated
               /\ check'.sid \notin removed
               /\ now <= everCreated[check'.sid] + SESSION_EXPIRY_MS
          /\ check'.valid =>
               /\ check'.sid \in DOMAIN sessions'
               /\ sessions'[check'.sid].expiresAt =
                    everCreated[check'.sid] + SESSION_EXPIRY_MS
          /\ ~check'.valid => check'.sid \notin DOMAIN sessions'
          /\ (~check'.valid /\ check'.sid \in DOMAIN everCreated) =>
               check'.sid \in removed']_vars

C3_Witness ==
  /\ check.sid \in DOMAIN everCreated
  /\ ~check.valid
  /\ now > everCreated[check.sid] + SESSION_EXPIRY_MS
  /\ check.sid \in removed

\* C4: the middleware accepts a request only after reading the admin
\* account of its unexpired session and finding it present and enabled; if
\* the account is missing or disabled the request is rejected and the
\* session is deleted, and a session evicted this way is never in the map
\* again and is never accepted again, whatever happens to the account.
C4_AdminRecheckEvicts ==
  /\ [][/\ (mw.pc = "lookup" /\ mw'.pc = "done") =>
             IF /\ Get(mw.session).adminId \in DOMAIN admins
                /\ admins[Get(mw.session).adminId].enabled
             THEN mw'.result = "accepted"
             ELSE /\ mw'.result = "adminGone"
                  /\ Get(mw.sid) \notin DOMAIN sessions'
                  /\ Get(mw.sid) \in revoked'
        /\ (mw'.result = "accepted" /\ mw' # mw) => mw.pc = "lookup"]_vars
  /\ [](\A sid \in revoked : sid \notin DOMAIN sessions)
  /\ []((mw.pc = "done" /\ ~IsNull(mw.sid) /\ Get(mw.sid) \in revoked) =>
          mw.result # "accepted")

C4_Witness ==
  /\ mw.pc = "done"
  /\ ~IsNull(mw.sid)
  /\ Get(mw.sid) \in revoked
  /\ mw.result = "invalidSession"
  /\ \E a \in DOMAIN admins : admins[a].enabled
  /\ now <= everCreated[Get(mw.sid)] + SESSION_EXPIRY_MS

\* C10: the setup route creates an admin account only when no admin account
\* exists.
C10_SetupOnlyWhenNoAdmin ==
  [][setupCreated' > setupCreated => DOMAIN admins = {}]_vars

\* ------------------------------------------------------------------------
\* Gateway and listing properties
\* ------------------------------------------------------------------------
\* the positions of the audit rows of the finished call's request and grant
GrantRowsOfCall ==
  {p \in (1..Len(auditLog)) \X (1..Len(auditLog)) :
     /\ p[1] < p[2]
     /\ auditLog[p[1]].eventType = "ACCESS_REQUEST"
     /\ auditLog[p[1]].actor = Get(gw.request).requesterId
     /\ auditLog[p[2]].eventType = "ACCESS_GRANTED"
     /\ auditLog[p[2]].target = Some(Get(gw.request).requesterId)}

\* C6: when the key holder granted and the history write failed, the route
\* still answers 200 with granted = true and exactly the key holder's keys,
\* the call's request and grant entries are in the audit log, the history has
\* no row for the call, and the step that settles the history write leaves
\* the audit log as it was.
C6_HistoryFailureKeepsGrant ==
  /\ []((/\ gw.pc = "done"
         /\ ~IsNull(gw.response)
         /\ Get(gw.response).granted
         /\ ~gw.saved)
        => /\ gw.http.status = 200
           /\ gw.http.granted
           /\ gw.http.privateKeys = Get(Get(gw.response).privateKeys)
           /\ gw.http.privateKeys =
                Get(gw.request).timeRange.startTime
                  .. Get(gw.request).timeRange.endTime
           /\ GrantRowsOfCall # {}
           /\ \A k \in 1..Len(history) : history[k].call # gw.calls)
  /\ [][gw.pc = "save" => auditLog' = auditLog]_vars

C6_Witness ==
  /\ gw.pc = "done"
  /\ ~IsNull(gw.response)
  /\ Get(gw.response).granted
  /\ ~gw.saved
  /\ gw.http.granted
  /\ gw.http.privateKeys # {}
  /\ Len(history) = 1
  /\ gw.calls = 2

\* the audit entries that decide a request of requester r made at t: outcome
\* entries later than t whose actor or target is r
RelatedOutcomes(r, t) ==
  {i \in 1..Len(auditLog) :
     /\ auditLog[i].eventType \in {"ACCESS_GRANTED", "ACCESS_DENIED"}
     /\ auditLog[i].timestamp > t
     /\ (auditLog[i].actor = r \/ auditLog[i].target = Some(r))}

EarliestRelated(r, t) ==
  {i \in RelatedOutcomes(r, t) :
     \A j \in RelatedOutcomes(r, t) :
        auditLog[i].timestamp <= auditLog[j].timestamp}

LabelOf(eventType) == IF eventType = "ACCESS_GRANTED" THEN "granted" ELSE "denied"

\* C7: every request a listing shows carries the status of the earliest
\* outcome entry after it whose actor or target is its requester, so a request
\* the key holder granted is shown as granted.
C7_StatusIsEarliestRelatedOutcome ==
  [][listing' # listing =>
       \A k \in 1..Len(listing'.requests) :
          LET r == listing'.requests[k]
          IN RelatedOutcomes(r.requesterId, r.timestamp) # {} =>
               \E i \in EarliestRelated(r.requesterId, r.timestamp) :
                  r.status = LabelOf(auditLog[i].eventType)]_vars

\* C8: in one listing, two requests made at different times are never given
\* the same outcome entry.
C8_NoSharedOutcome ==
  [][listing' # listing =>
       \A k, m \in 1..Len(listing'.requests) :
          LET r1 == listing'.requests[k]
              r2 == listing'.requests[m]
          IN (/\ r1.timestamp # r2.timestamp
              /\ ~IsNull(r1.outcome)
              /\ ~IsNull(r2.outcome))
             => r1.outcome # r2.outcome]_vars

\* C9: a request for which the listing found no outcome entry is shown with
\* a status other than the one an explicitly denied request gets.
C9_UnmatchedNotShownAsDenied ==
  [][listing' # listing =>
       \A k \in 1..Len(listing'.requests) :
          IsNull(listing'.requests[k].outcome)
             => listing'.requests[k].status # LabelOf("ACCESS_DENIED")]_vars

\* ------------------------------------------------------------------------
\* API-key middleware properties
\* ------------------------------------------------------------------------
GateFailed(g) == g.pc = "done" /\ IsNull(g.reply.validated)

\* C11 as stated: any two authentication failures, whatever their cause and
\* a missing header included, are answered with the same response.
C11_AllFailuresSameReply ==
  [][(GateFailed(gate) /\ GateFailed(gate')) => gate'.reply = gate.reply]_vars

\* C11 amended: every authentication failure is answered 401 and never with
\* an identity; the failures of a request that carried an ApiKey header
\* (malformed credential, unknown key id, disabled or expired key, disabled
\* requester, wrong secret) all get one and the same response; a request
\* without an ApiKey header gets another 401 response that asks for the key.
C11_FailuresAre401AndKeyFailuresAlike ==
  GateFailed(gate) =>
    /\ gate.reply.status = 401
    /\ gate.reply.error = "Unauthorized"
    /\ IF HeaderRejected(gate.header)
       THEN gate.reply = ReplyKeyRequired
       ELSE gate.reply = ReplyInvalidKey

\* a failure caused by the requester being disabled has been answered
C11_Witness ==
  /\ GateFailed(gate)
  /\ ~HeaderRejected(gate.header)
  /\ val.pc = "done"
  /\ ~IsNull(val.snap)
  /\ Get(val.snap).enabled
  /\ ~Get(val.snap).requester.enabled

\* ------------------------------------------------------------------------
\* Admin guard and session store properties
\* ------------------------------------------------------------------------
\* C12: a request to an admin-protected route without a session id, or with
\* an invalid or expired one, is answered 401 and its handler does not run.
C12_RejectedWith401 ==
  (mw.pc = "done" /\ mw.result \in {"noSession", "invalidSession"})
    => /\ AdminGuardReply(mw.result).status = 401
       /\ ~AdminGuardReply(mw.result).handlerRan

\* a session that was created and whose lifetime is over
LifetimeOver(sid) ==
  sid \in DOMAIN everCreated /\ now > everCreated[sid] + SESSION_EXPIRY_MS

\* C13: deleteSession leaves no entry for the id, changes nothing else,
\* changes nothing at all when the id is missing, and deleting twice is
\* deleting once; an id that was taken out of the store or whose lifetime is
\* over is in no later state in the store or accepted by validateSession,
\* whatever creations, validations, deletions and sweeps follow.
C13_DeleteIdempotentAndTerminal ==
  /\ [](\A sid \in SessionIds :
          /\ sid \notin DOMAIN deleteSession(sessions, sid)
          /\ \A other \in (DOMAIN sessions) \ {sid} :
                /\ other \in DOMAIN deleteSession(sessions, sid)
                /\ deleteSession(sessions, sid)[other] = sessions[other]
          /\ (sid \notin DOMAIN sessions => deleteSession(sessions, sid) = sessions)
          /\ deleteSession(deleteSession(sessions, sid), sid)
               = deleteSession(sessions, sid)
          /\ (sid \in removed \/ LifetimeOver(sid))
               => IsNull(validateSessionResult(sid))
          /\ sid \in removed => sid \notin DOMAIN sessions)
  /\ [][/\ removed \subseteq removed'
        /\ (DOMAIN sessions) \ (DOMAIN sessions') \subseteq removed'
        /\ \A sid \in DOMAIN everCreated : LifetimeOver(sid) => LifetimeOver(sid)'
        /\ (check'.seq # check.seq
              /\ (check'.sid \in removed \/ LifetimeOver(check'.sid)))
             => ~check'.valid]_vars

\* a session was deleted within its lifetime, another was created after
\* that, and the deleted id was then presented again and refused
C13_Witness ==
  /\ check.sid \in removed
  /\ ~check.valid
  /\ ~LifetimeOver(check.sid)
  /\ \E other \in DOMAIN sessions :
        other > check.sid /\ ~IsNull(validateSessionResult(other))

\* C14: the sweep leaves exactly the sessions with now <= expiresAt, each as
\* it was, and no step of any operation alters a session that stays in the
\* store.
C14_SweepRemovesExactlyExpired ==
  /\ [](/\ DOMAIN cleanupExpiredSessions
             = {sid \in DOMAIN sessions : ~(now > sessions[sid].expiresAt)}
        /\ \A sid \in DOMAIN cleanupExpiredSessions :
              cleanupExpiredSessions[sid] = sessions[sid])
  /\ [][\A sid \in (DOMAIN sessions) \cap (DOMAIN sessions') :
          sessions'[sid] = sessions[sid]]_vars

\* the store holds a session past its expiry and one within it
C14_Witness ==
  \E a, b \in DOMAIN sessions :
    /\ now > sessions[a].expiresAt
    /\ now <= sessions[b].expiresAt

\* C15: a session created at the same instant at the admin session store and
\* at the cookie session store and presented to both at the same later
\* instants is accepted by both or refused by both.
C15_StoresAgree == twin.admin = twin.cookie

\* ------------------------------------------------------------------------
\* Gateway input and response-path properties
\* ------------------------------------------------------------------------
\* C16: the key holder is called only for a request with a non-empty
\* requesterId and startTime <= endTime.
C16_KeyHolderOnlyForValidRequests ==
  gw.pc \in {"request", "keyholder"} =>
    /\ Get(gw.request).requesterId # ""
    /\ Get(gw.request).timeRange.startTime <= Get(gw.request).timeRange.endTime

\* C17: while the history write is pending the route's answer is already
\* available, so a write that never completes does not hold the answer back.
C17_ResponseDoesNotWaitForHistory ==
  gw.pc = "save" => gw.http.status = 200

\* the request row and the outcome row of one authorization call: calls
\* follow one another, so an outcome belongs to the last request before it
CallRows ==
  {p \in (1..Len(auditLog)) \X (1..Len(auditLog)) :
     /\ p[1] < p[2]
     /\ auditLog[p[1]].eventType = "ACCESS_REQUEST"
     /\ auditLog[p[2]].eventType \in {"ACCESS_GRANTED", "ACCESS_DENIED"}
     /\ \A k \in (p[1] + 1)..(p[2] - 1) :
           auditLog[k].eventType # "ACCESS_REQUEST"}

PlaceIn(seq, id) == CHOOSE k \in 1..Len(seq) : seq[k] = id

\* C18: every retrieval of the audit log lists the request entry of a call
\* before the outcome entry of that call, equal timestamps included.
C18_RequestBeforeOutcome ==
  [][retrieved' # retrieved =>
       \A p \in CallRows :
          PlaceIn(retrieved', auditLog[p[1]].id)
            < PlaceIn(retrieved', auditLog[p[2]].id)]_vars

ReturnedRate == Get(stats.result).successRate

\* C19: the success rate getStatistics returns is the successful count
\* divided by the total count when the total is positive, and exactly 0,
\* never NaN, when the total is 0.
C19_SuccessRateIsQuotientOrZero ==
  stats.pc = "done" =>
    /\ ReturnedRate.den # 0
    /\ stats.total > 0 =>
          ReturnedRate.num * stats.total = stats.successCount * ReturnedRate.den
    /\ stats.total = 0 => ReturnedRate.num = 0

\* statistics were returned for an empty table
C19_Witness ==
  /\ stats.pc = "done"
  /\ stats.total = 0
  /\ Get(stats.result).totalEntries = 0

\* C20: whatever appends run while getStatistics reads, the success rate it
\* returns lies between 0 and 1.
C20_SuccessRateWithinUnitInterval ==
  stats.pc = "done" =>
    /\ ReturnedRate.den > 0
    /\ 0 <= ReturnedRate.num
    /\ ReturnedRate.num <= ReturnedRate.den

\* an appended row satisfies every option supplied
SatisfiesOptions(row, options) ==
  /\ ~IsNull(options.timeRange) =>
        /\ row.timestamp >= Get(options.timeRange).startTime
        /\ row.timestamp <= Get(options.timeRange).endTime
  /\ ~IsNull(options.eventType) => row.eventType = Get(options.eventType)
  /\ ~IsNull(options.actor) => row.actor = Get(options.actor)

\* C21: getAuditLogs returns exactly the appended entries that satisfy every
\* option supplied (all of them when none is supplied).
C21_ReturnsExactlyMatchingEntries ==
  [][logs' # logs =>
       {logs'.entries[i].id : i \in 1..Len(logs'.entries)}
         = {auditLog[i].id : i \in {k \in 1..Len(auditLog) :
                                     SatisfiesOptions(auditLog[k],
                                                      logs'.options)}}]_vars

\* a management route was called with the id of a row that does not exist
AddressedUnknownId ==
  \/ \E id \in ReqRowIds \ DOMAIN requesters :
        \/ \E en \in BOOLEAN : UpdateRequester(id, en)
        \/ DeleteRequester(id)
  \/ \E id \in KeyRowIds \ DOMAIN apiKeys :
        \/ RevokeApiKey(id)
        \/ EnableApiKey(id)
        \/ DisableApiKey(id)

\* C22: an operation addressed to an unknown requester or API-key id is
\* answered with HTTP 404 and changes no stored row.
C22_UnknownIdIs404 ==
  [][AddressedUnknownId =>
       /\ response'.status = 404
       /\ UNCHANGED <<requesters, apiKeys>>]_vars

\* C23: deleting a requester deletes every API key of that requester and
\* leaves the audit log and the request history as they are, and no
\* validateApiKey call returns an identity for a key of a requester whose
\* deletion has completed.
C23_DeletedRequesterKeysNeverValidate ==
  [][/\ \A id \in DOMAIN requesters :
          DeleteRequester(id) =>
            /\ \A k \in DOMAIN apiKeys' : apiKeys'[k].requesterId # id
            /\ UNCHANGED <<auditLog, history>>
     /\ ~(/\ val.pc = "verify"
          /\ val'.pc = "done"
          /\ ~IsNull(val'.result)
          /\ Get(val.snap).requesterId \notin DOMAIN requesters)]_vars

\* C24: the built-in policy exists after every sequence of policy
\* operations, and removePolicy('allow-all') ends with an error and leaves
\* the policies as they were.
C24_AllowAllAlwaysExists ==
  /\ [](AllowAll \in DOMAIN policies)
  /\ [][RemovePolicy(AllowAll) =>
          /\ policyReply'.outcome = "error"
          /\ policies' = policies]_vars

\* a removal of the built-in policy was refused while custom policies exist
\* and the built-in one had been overwritten and disabled
C24_Witness ==
  /\ policyReply.op = "removePolicy"
  /\ policyReply.id = AllowAll
  /\ policyReply.outcome = "error"
  /\ DOMAIN policies = PolicyIds
  /\ ~policies[AllowAll].enabled

\* the rows of api_keys without their lastUsedAt column
WithoutLastUsed(table) ==
  [id \in DOMAIN table |-> [table[id] EXCEPT !.lastUsedAt = Null]]

\* C25: the steps of validateApiKey change no stored row; the last-used
\* update is issued only together with a returned identity, for the row that
\* was validated; when it settles it changes at most the lastUsedAt column of
\* that row, and whether it succeeds or fails it leaves the returned identity
\* and the responses alone.
C25_ValidationOnlyTouchesLastUsed ==
  [][/\ val' # val => UNCHANGED <<requesters, apiKeys, response>>
     /\ (touch' # touch /\ ~IsNull(touch')) =>
          /\ val'.pc = "done"
          /\ ~IsNull(val'.result)
          /\ Get(touch').id = Get(val'.snap).id
     /\ (touch' # touch /\ IsNull(touch')) =>
          /\ UNCHANGED <<val, response, requesters>>
          /\ WithoutLastUsed(apiKeys') = WithoutLastUsed(apiKeys)
          /\ \A id \in DOMAIN apiKeys :
                id # Get(touch).id => apiKeys'[id] = apiKeys[id]]_vars

\* an identity was returned and its last-used update failed: the row is
\* still stored and was never marked as used
C25_Witness ==
  /\ val.pc = "done"
  /\ ~IsNull(val.result)
  /\ IsNull(touch)
  /\ Get(val.snap).id \in DOMAIN apiKeys
  /\ IsNull(apiKeys[Get(val.snap).id].lastUsedAt)

\* the session the middleware validated is no longer stored although it has
\* not expired and the middleware did not evict it: it was logged out
LoggedOutDuringLookup ==
  /\ mw.pc = "lookup"
  /\ Get(mw.sid) \notin DOMAIN sessions
  /\ Get(mw.sid) \notin revoked
  /\ ~SessionExpired(Get(mw.session), now)

\* C26: the admin middleware authorizes no request whose session has been
\* logged out, a request waiting on the admin-account lookup included.
C26_NoAuthorizationAfterLogout ==
  [][~(LoggedOutDuringLookup /\ mw'.result = "accepted")]_vars

\* C27: a request with a valid API key passes the middleware and reaches
\* the handler of the route, whose result, not the value the middleware
\* returned, is the answer.
C27_ValidKeyReachesHandler ==
  (gate.pc = "done" /\ ~IsNull(gate.reply.validated)) =>
    /\ ApiKeyRouteAnswer.handlerRan
    /\ ApiKeyRouteAnswer.body # Some(gate.reply)

\* the ids of the request entries of the first page of the entries selected
\* by requester and window whose status, reconstructed from those entries,
\* is the one asked for (all of them when no status is asked for)
ExpectedRequests(q) ==
  LET base == ByWindow(ByRequester(getAll, q), q)
      page == Slice(base, q.offset, q.offset + q.limit)
  IN {page[i].id : i \in {k \in 1..Len(page) :
        /\ page[k].eventType = "ACCESS_REQUEST"
        /\ IsNull(q.status) \/ StatusOf(base, page[k]) = Get(q.status)}}

\* C28: the listing with status=granted returns exactly the request entries
\* whose reconstructed status is granted, with status=denied exactly those
\* whose reconstructed status is denied, and without a status every request
\* entry of the page.
C28_StatusFilterSelectsByStatus ==
  [][\A q \in Queries :
       ListAccessRequests(q) =>
         {listing'.requests[k].id : k \in 1..Len(listing'.requests)}
           = ExpectedRequests(q)]_vars

\* C29: requireAuth of the cookie sessions lets no request pass whose
\* session was last accessed more than 24 hours before, whether or not
\* cleanupSessions has run in between.
C29_StaleCookieSessionRejected ==
  (cookieReply.status = 200 /\ ~IsNull(cookieReply.lastAccess)) =>
    cookieReply.at - Get(cookieReply.lastAccess) <= COOKIE_MAX_AGE

\* C30: an entry appended to the audit log and then retrieved equals the
\* entry that was appended, also when its time range starts or ends at 0.
C30_RetrievedEqualsAppended ==
  [][\A c \in EntryContents :
       AppendEntry(c) => getAll'[Len(auditLog')] = EntryOf(c)]_vars

====
